---- MODULE Spec2Model ----
(***************************************************************************)
(* A model of the genotype construction code of Dipper.                    *)
(*                                                                         *)
(* Text values (Python str) are sequences of tokens, so that concatenation *)
(* ('ZFIN:' + id, gene_label + '<' + ...) is \o and the empty string '' is *)
(* << >>.  A run of letters and digits is one token; a blank and every     *)
(* punctuation character is a token of its own, so that equal strings are  *)
(* equal sequences.  Python's None is the reserved text None.              *)
(* A Python dict is a sequence of [k, v] entries in insertion order; a     *)
(* write to an existing key keeps the key's position.                      *)
(***************************************************************************)
EXTENDS Integers, Sequences, FiniteSets, TLC

VARIABLES
    pc,                 \* position of ZFIN.parse: which step runs next
    limit,              \* the limit argument of parse (None or a number)
    line_counter,       \* line_counter of the row loop that is running
    exception,          \* the exception that ended the run, or None
    label_hash,         \* self.label_hash: one dict per label kind
    wildtype_hash,      \* self.wildtype_hash
    genotype_id_to_background_id_hash, \* self.genotype_id_to_background_id_hash['genotype_id']
    geno_hash,          \* dict: key -> name of the genoparts object it refers to
    genoparts,          \* the genoparts dict objects, by the genotype id that created them
    row,                \* the loop variable row of _process_genotype_features
    genotype_id,        \* the loop variable genotype_id, as the last row left it
    gvc_hash,           \* dict: genotype id -> dict (gt+'vslc' -> list of vslc ids)
    vslc_label_hash,    \* dict: gt+'vslc' -> list of vslc labels
    gt_idx,             \* position of the loop `for gt in geno_hash`
    graph,              \* the calls made on the graph, in order
    log,                \* the log records written so far
    vl_in,              \* SpecLabel: the labels handed to the VSLC label rule
    vl_out,             \* SpecLabel: its result
    mgi_pc,             \* MGI: position of _process_gxd_allele_pair_view
    mgi_limit,          \* MGI: the limit argument
    mgi_line,           \* MGI: the loop variable line, split into its fields
    mgi_line_counter,   \* MGI: line_counter
    mgi_graph,          \* MGI: self.graph, a set of triples
    mgi_out,            \* MGI: what was written to stdout
    gu_curie_map,       \* GraphUtils: self.curie_map, a dict from prefix to IRI
    gu_graph,           \* GraphUtils: the rdflib graph g, a set of triples
    gu_n,               \* GraphUtils: the number of calls made
    gu_call,            \* GraphUtils: the last call and its arguments
    gu_ret,             \* GraphUtils: what the last call added and returned
    kd_reagent_hash,    \* ZFIN: self.kd_reagent_hash, three dicts
    extrinsic_part_hash,        \* _process_pheno_enviro: extrinsic id -> conditions
    kd_reagent_conc_hash,       \* _process_pheno_enviro: id -> condition -> conc id
    kd_reagent_conc_label_hash, \* _process_pheno_enviro: id -> condition -> label
    omim_pc,            \* OMIM.process_entries: where the call stands
    omim_testMode,      \* OMIM: self.testMode
    omim_limit,         \* OMIM.process_entries: limit, << >> for None
    omimids,            \* OMIM.process_entries: the list of cleaned ids
    omim_it,            \* OMIM.process_entries: it
    omim_maxit,         \* OMIM.process_entries: maxit
    omim_requests,      \* OMIM.process_entries: the mimNumber lists requested
    mm_pc,              \* OMIM._process_morbidmap: where the call stands
    mm_limit,           \* OMIM._process_morbidmap: limit, << >> for None
    mm_line_counter,    \* OMIM._process_morbidmap: line_counter
    mm_line,            \* OMIM._process_morbidmap: the line read last
    mm_parts,           \* OMIM._process_morbidmap: disorder_num and phene_key
    mm_graph,           \* OMIM._process_morbidmap: the associations added
    mm_out,             \* OMIM._process_morbidmap: what was printed
    fly_pc,             \* FlyBase._process_phenotype_cvterm: where the call stands
    fly_lines,          \* FlyBase._process_phenotype_cvterm: the rows read
    fly_idhash,         \* FlyBase: self.idhash['phenotype'] and ['cvterm']
    phenocv,            \* FlyBase: self.phenocv
    fly_log             \* FlyBase: what was logged

vars == <<pc, limit, line_counter, exception, label_hash, wildtype_hash,
          genotype_id_to_background_id_hash, geno_hash, genoparts,
          row, genotype_id, gvc_hash, vslc_label_hash, gt_idx, graph, log,
          vl_in, vl_out, mgi_pc, mgi_limit, mgi_line, mgi_line_counter, mgi_graph,
          mgi_out, gu_curie_map, gu_graph, gu_n, gu_call, gu_ret,
          kd_reagent_hash, extrinsic_part_hash, kd_reagent_conc_hash,
          kd_reagent_conc_label_hash, omim_pc, omim_testMode, omim_limit,
          omimids, omim_it, omim_maxit, omim_requests, mm_pc, mm_limit,
          mm_line_counter, mm_line, mm_parts, mm_graph, mm_out, fly_pc,
          fly_lines, fly_idhash, phenocv, fly_log>>

zfin_vars == <<pc, limit, line_counter, exception, label_hash, wildtype_hash,
               genotype_id_to_background_id_hash, geno_hash, genoparts,
               row, genotype_id, gvc_hash, vslc_label_hash, gt_idx, graph, log>>

label_vars == <<vl_in, vl_out>>

mgi_vars == <<mgi_pc, mgi_limit, mgi_line, mgi_line_counter, mgi_graph, mgi_out>>

gu_vars == <<gu_curie_map, gu_graph, gu_n, gu_call, gu_ret>>

env_vars == <<kd_reagent_hash, extrinsic_part_hash, kd_reagent_conc_hash,
              kd_reagent_conc_label_hash>>

\* the variables of the steps that follow _process_genotype_features and of
\* the other sources
omim_vars == <<omim_pc, omim_testMode, omim_limit, omimids, omim_it, omim_maxit,
               omim_requests>>

mm_vars == <<mm_pc, mm_limit, mm_line_counter, mm_line, mm_parts, mm_graph, mm_out>>

fly_vars == <<fly_pc, fly_lines, fly_idhash, phenocv, fly_log>>

src_vars == <<omim_vars, mm_vars, fly_vars>>

rest_vars == <<env_vars, src_vars>>

----------------------------------------------------------------------------
(* Bounds *)

MaxRows == 2        \* rows of genotype_features.txt read in Spec
MaxRowsOrder == 4   \* rows of genotype_features.txt read in SpecParse
MaxWild == 1        \* rows of wildtypes.txt
MaxBack == 1        \* rows of genotype_backgrounds.txt
MaxPairs == 2       \* rows of gxd_allelepair_view

----------------------------------------------------------------------------
(* Python values *)

None == <<"None">>

Elems(s) == {s[i] : i \in 1..Len(s)}

\* d.get(k): the value stored under k, or None
Get(d, k) ==
    IF \E i \in 1..Len(d) : d[i].k = k
    THEN d[CHOOSE i \in 1..Len(d) : d[i].k = k].v
    ELSE None

\* k in d
Has(d, k) == \E i \in 1..Len(d) : d[i].k = k

\* d[k] = v
Put(d, k, v) ==
    IF Has(d, k)
    THEN [i \in 1..Len(d) |-> IF d[i].k = k THEN [k |-> k, v |-> v] ELSE d[i]]
    ELSE Append(d, [k |-> k, v |-> v])

\* if d.get(k) is None: d[k] = v      /    if k not in d: d[k] = v
PutIfAbsent(d, k, v) == IF Has(d, k) THEN d ELSE Put(d, k, v)

Keys(d) == [i \in 1..Len(d) |-> d[i].k]

RECURSIVE join(_, _)
\* sep.join(parts) for a sequence of texts
join(sep, parts) ==
    IF Len(parts) = 0 THEN << >>
    ELSE IF Len(parts) = 1 THEN parts[1]
    ELSE parts[1] \o sep \o join(sep, Tail(parts))

\* 'ZFIN:' + x.strip(); the ids of the model carry no surrounding blanks
Zfin(x) == <<"ZFIN", ":">> \o x

\* Source.make_id: a digest of the text behind the internal marker '_'
make_id(s) == <<"_">> \o s

----------------------------------------------------------------------------
(* What is handed to the graph *)

\* Genotype.addGenotype(id, label, type, description)
AddGenotype(id, label, type, desc) ==
    [op |-> "addGenotype", a |-> id, b |-> label, c |-> type, d |-> desc]
\* Genotype.addAllele(allele_id, allele_name, allele_type)
AddAllele(id, label, type) ==
    [op |-> "addAllele", a |-> id, b |-> label, c |-> type, d |-> None]
\* Genotype.addGene(gene_id, gene_symbol)
AddGene(id, label) ==
    [op |-> "addGene", a |-> id, b |-> label, c |-> None, d |-> None]
\* Genotype.addDerivesFrom(allele_id, construct_id)
AddDerivesFrom(id, cid) ==
    [op |-> "addDerivesFrom", a |-> id, b |-> cid, c |-> None, d |-> None]
\* Genotype.addAlleleOfGene(allele_id, gene_id)
AddAlleleOfGene(aid, gid) ==
    [op |-> "addAlleleOfGene", a |-> aid, b |-> gid, c |-> None, d |-> None]
\* Genotype.addPartsToVSLC(vslc_id, allele1_id, allele2_id, zygosity_id)
AddPartsToVSLC(id, a1, a2, z) ==
    [op |-> "addPartsToVSLC", a |-> id, b |-> a1, c |-> a2, d |-> z]
\* Genotype.addTaxon(taxon_id, genopart_id)
AddTaxon(tid, gid) ==
    [op |-> "addTaxon", a |-> tid, b |-> gid, c |-> None, d |-> None]
\* Genotype.addGenomicBackgroundToGenotype(background_id, genotype_id)
AddGenomicBackgroundToGenotype(bid, gid) ==
    [op |-> "addGenomicBackgroundToGenotype", a |-> bid, b |-> gid, c |-> None, d |-> None]
\* GraphUtils.addClassToGraph(g, id, label)
AddClassToGraph(id, label) ==
    [op |-> "addClassToGraph", a |-> id, b |-> label, c |-> None, d |-> None]
\* GraphUtils.addIndividualToGraph(g, id, label, type)
AddIndividualToGraph(id, label, type) ==
    [op |-> "addIndividualToGraph", a |-> id, b |-> label, c |-> type, d |-> None]
\* GraphUtils.addTriple(g, subject_id, predicate_id, object_id)
AddTriple(s, p, o) ==
    [op |-> "addTriple", a |-> s, b |-> p, c |-> o, d |-> None]

\* the terms of the Genotype model that the ZFIN code names
has_alternate_part == <<"has_alternate_part">>
variant_single_locus_complement == <<"variant_single_locus_complement">>
genomic_variation_complement == <<"genomic_variation_complement">>
wildtype == <<"wildtype">>
indeterminate == <<"indeterminate">>
heterozygous == <<"heterozygous">>
homozygous == <<"homozygous">>

InGraph(call) == \E i \in 1..Len(graph) : graph[i] = call

----------------------------------------------------------------------------
(* The state parse() sets up before its first step; limit is << >> for     *)
(* None and <<n>> for the number n.                                        *)

NoLimit == << >>

EmptyLabelHash ==
    [gene_label |-> << >>, allele_label |-> << >>, construct_label |-> << >>,
     genotype_label |-> << >>, background_label |-> << >>]

ParseStart(lim) ==
    /\ pc = "wildtypes"
    /\ limit = lim
    /\ line_counter = 0
    /\ exception = None
    /\ label_hash = EmptyLabelHash
    /\ wildtype_hash = [id |-> << >>, symbol |-> << >>]
    /\ genotype_id_to_background_id_hash = << >>
    /\ geno_hash = << >>
    /\ genoparts = << >>
    /\ row = None
    /\ genotype_id = None
    /\ gvc_hash = << >>
    /\ vslc_label_hash = << >>
    /\ gt_idx = 0
    /\ graph = << >>
    /\ log = {}

NoResult == << >>

LabelIdle == vl_in = None /\ vl_out = NoResult

MgiStart ==
    /\ mgi_pc = "rows"
    /\ mgi_limit = NoLimit
    /\ mgi_line = None
    /\ mgi_line_counter = 0
    /\ mgi_graph = {}
    /\ mgi_out = {}

\* a GraphUtils object on a curie map, before its first call
CurieMapBase ==
    << [k |-> << >>, v |-> <<"http", ":", "/", "/", "monarch", "/">>],
       [k |-> <<"OMIM">>, v |-> <<"http", ":", "/", "/", "omim", "/">>],
       [k |-> <<"IAO">>, v |-> <<"http", ":", "/", "/", "obo", "/", "IAO", "_">>],
       [k |-> <<"OIO">>, v |-> <<"http", ":", "/", "/", "oio", "#">>] >>

\* parse() line 112 and the locals of _process_pheno_enviro (lines 1410-1412)
EnvStart ==
    /\ kd_reagent_hash =
         [kd_reagent_id |-> << >>, kd_reagent_label |-> << >>, gene_label |-> << >>]
    /\ extrinsic_part_hash = << >>
    /\ kd_reagent_conc_hash = << >>
    /\ kd_reagent_conc_label_hash = << >>

GuStart ==
    /\ gu_curie_map = CurieMapBase
    /\ gu_graph = {}
    /\ gu_n = 0
    /\ gu_call = NoResult
    /\ gu_ret = NoResult

\* the start of the steps that follow and of the other sources
\* OMIM.process_entries before it is called
OmimStart ==
    /\ omim_pc = "idle"
    /\ omim_testMode = FALSE
    /\ omim_limit = NoLimit
    /\ omimids = << >>
    /\ omim_it = 0
    /\ omim_maxit = 0
    /\ omim_requests = << >>

\* OMIM._process_morbidmap before it is called
MorbidStart ==
    /\ mm_pc = "idle"
    /\ mm_limit = NoLimit
    /\ mm_line_counter = 0
    /\ mm_line = None
    /\ mm_parts = << >>
    /\ mm_graph = << >>
    /\ mm_out = {}

\* FlyBase.__init__ (lines 78-86)
FlyStart ==
    /\ fly_pc = "idle"
    /\ fly_lines = << >>
    /\ fly_idhash = [phenotype |-> << >>, cvterm |-> << >>]
    /\ phenocv = << >>
    /\ fly_log = {}

RestStart == EnvStart /\ OmimStart /\ MorbidStart /\ FlyStart

Init == ParseStart(NoLimit) /\ LabelIdle /\ MgiStart /\ GuStart /\ RestStart

\* the break at the end of every row loop
LimitReached(lc) == limit # NoLimit /\ lc > limit[1]

Info(msg) == [level |-> "info", msg |-> msg]
Error(msg) == [level |-> "error", msg |-> msg]

----------------------------------------------------------------------------
(* ZFIN._process_wildtypes: one row of wildtypes.txt *)

WildRows ==
    [genotype_id : {<<"W1">>}, genotype_name : {<<"AB">>},
     genotype_abbreviation : {<<"ab">>}]

ProcessWildtypeRow(r) ==
    LET lc == line_counter + 1
        gid == Zfin(r.genotype_id)
    IN  /\ pc = "wildtypes"
        /\ line_counter' = lc
        /\ graph' = Append(graph, AddGenotype(gid, r.genotype_abbreviation,
                                              wildtype, r.genotype_name))
        /\ label_hash' =
             [label_hash EXCEPT
                !.background_label = PutIfAbsent(@, gid, r.genotype_name),
                !.genotype_label =
                    PutIfAbsent(@, gid, <<"[">> \o r.genotype_name \o <<"]">>)]
        /\ wildtype_hash' =
             IF Has(wildtype_hash.id, r.genotype_name) THEN wildtype_hash
             ELSE [id |-> Put(wildtype_hash.id, r.genotype_name, gid),
                   symbol |-> Put(wildtype_hash.symbol, r.genotype_name,
                                  r.genotype_abbreviation)]
        /\ pc' = IF LimitReached(lc) THEN "wildtypes_break" ELSE "wildtypes"
        /\ log' = log \cup {Info("Processing wildtype genotypes")}
        /\ UNCHANGED <<limit, exception, genotype_id_to_background_id_hash,
                       geno_hash, genoparts, row, genotype_id, gvc_hash,
                       vslc_label_hash, gt_idx>>
        /\ UNCHANGED <<label_vars, mgi_vars, gu_vars, rest_vars>>

\* the end of wildtypes.txt (or the break) and the start of the next step
EndWildtypes ==
    /\ pc \in {"wildtypes", "wildtypes_break"}
    /\ pc' = "backgrounds"
    /\ line_counter' = 0
    /\ log' = log \cup {Info("Processing wildtype genotypes"),
                        Info("Done with wildtype genotypes"),
                        Info("Processing genotype backgrounds")}
    /\ UNCHANGED <<limit, exception, label_hash, wildtype_hash,
                   genotype_id_to_background_id_hash, geno_hash, genoparts,
                   row, genotype_id, gvc_hash, vslc_label_hash, gt_idx, graph>>
    /\ UNCHANGED <<label_vars, mgi_vars, gu_vars, rest_vars>>

----------------------------------------------------------------------------
(* ZFIN._process_genotype_backgrounds: one row of genotype_backgrounds.txt *)

taxon_id == <<"NCBITaxon", ":", "7955">>

BackRows ==
    {[genotype_id |-> <<"G1">>, genotype_name |-> <<"n1">>, background_id |-> <<"W1">>],
     [genotype_id |-> <<"G2">>, genotype_name |-> <<"n2">>, background_id |-> <<"W2">>]}

ProcessBackgroundRow(r) ==
    LET lc == line_counter + 1
        gid == Zfin(r.genotype_id)
        bid == Zfin(r.background_id)
    IN  /\ pc = "backgrounds"
        /\ line_counter' = lc
        /\ genotype_id_to_background_id_hash' =
             PutIfAbsent(genotype_id_to_background_id_hash, gid, bid)
        /\ graph' = graph \o <<AddClassToGraph(taxon_id, None),
                               AddTaxon(taxon_id, bid),
                               AddGenotype(gid, r.genotype_name, None, None),
                               AddGenomicBackgroundToGenotype(bid, gid)>>
        /\ pc' = IF LimitReached(lc) THEN "backgrounds_break" ELSE "backgrounds"
        /\ UNCHANGED <<limit, exception, label_hash, wildtype_hash, geno_hash,
                       genoparts, row, genotype_id, gvc_hash, vslc_label_hash,
                       gt_idx, log>>
        /\ UNCHANGED <<label_vars, mgi_vars, gu_vars, rest_vars>>

EndBackgrounds ==
    /\ pc \in {"backgrounds", "backgrounds_break"}
    /\ pc' = "features"
    /\ line_counter' = 0
    /\ log' = log \cup {Info("Done with genotype backgrounds"),
                        Info("Processing Genotypes")}
    /\ UNCHANGED <<limit, exception, label_hash, wildtype_hash,
                   genotype_id_to_background_id_hash, geno_hash, genoparts,
                   row, genotype_id, gvc_hash, vslc_label_hash, gt_idx, graph>>
    /\ UNCHANGED <<label_vars, mgi_vars, gu_vars, rest_vars>>

----------------------------------------------------------------------------
(* ZFIN._process_genotype_features: one row of genotype_features.txt *)

type_map ==
    << [k |-> <<"complex_substitution">>, v |-> <<"SO", ":", "1000005">>],
       [k |-> <<"deficiency">>, v |-> <<"SO", ":", "1000029">>],
       [k |-> <<"deletion">>, v |-> <<"SO", ":", "0000159">>],
       [k |-> <<"indel">>, v |-> <<"SO", ":", "1000032">>],
       [k |-> <<"insertion">>, v |-> <<"SO", ":", "0000667">>],
       [k |-> <<"point_mutation">>, v |-> <<"SO", ":", "1000008">>],
       [k |-> <<"sequence_variant">>, v |-> <<"SO", ":", "0001060">>],
       [k |-> <<"transgenic_insertion">>, v |-> <<"SO", ":", "0001218">>],
       [k |-> <<"transgenic_unspecified">>, v |-> <<"SO", ":", "0000781">>],
       [k |-> <<"transloc">>, v |-> <<"SO", ":", "0000199">>],
       [k |-> <<"unspecified">>, v |-> <<"SO", ":", "0001059">>] >>

\* ZFIN._map_allele_type_to_geno: the mapped type, and whether it logged
_map_allele_type_to_geno(allele_type) ==
    IF Has(type_map, allele_type)
    THEN [type |-> Get(type_map, allele_type), logged |-> FALSE]
    ELSE [type |-> <<"SO", ":", "0001059">>, logged |-> TRUE]

unknown == <<"unknown">>
sentinel == <<"?">>

\* what a row appends after the allele itself (lines 226-229 and 237-240)
ZygosityExtra(zygosity, allele_id) ==
    IF zygosity = homozygous THEN <<allele_id>>
    ELSE IF zygosity = unknown THEN <<sentinel>>
    ELSE << >>

\* lines 221-229: the locus list of a row whose gene is known
KnownGeneParts(parts, gene_id, allele_id, zygosity) ==
    Put(parts, gene_id,
        (IF Has(parts, gene_id) THEN Append(Get(parts, gene_id), allele_id)
         ELSE <<allele_id>>) \o ZygosityExtra(zygosity, allele_id))

\* lines 236-240: the locus list of a row whose gene is not known
UnknownGeneParts(parts, allele_id, zygosity) ==
    Put(parts, allele_id, <<allele_id>> \o ZygosityExtra(zygosity, allele_id))

\* the row ends the run with an exception
Raise(r, lc, exc) ==
    /\ pc' = "crashed"
    /\ row' = r
    /\ line_counter' = lc
    /\ exception' = exc
    /\ UNCHANGED <<limit, label_hash, wildtype_hash,
                   genotype_id_to_background_id_hash, geno_hash, genoparts,
                   genotype_id, gvc_hash, vslc_label_hash, gt_idx, graph, log>>

\* the genotype label with the background left out
GenotypeName_noBackground(genotype_name, background_id) ==
    genotype_name \o <<" ", "[", "n", ".", "s", ".", "]">>

\* lines 182-185: the label of the genotype of a row
GenotypeName(genotype_name, background_id) ==
    IF background_id # None
    THEN genotype_name \o <<" ", "[">>
         \o Get(label_hash.background_label, background_id) \o <<"]">>
    ELSE genotype_name \o <<" ", "[", "n", ".", "s", ".", "]">>

Columns == 14

ProcessFeatureRow(r) ==
    LET lc == line_counter + 1
        gid == Zfin(r.genotype_id)
        background_id == Get(genotype_id_to_background_id_hash, gid)
        background_label == Get(label_hash.background_label, background_id)
        genotype_name == GenotypeName(r.genotype_name, background_id)
        isnew == ~Has(geno_hash, gid)
        obj == IF isnew THEN gid ELSE Get(geno_hash, gid)
        parts == IF isnew THEN << >> ELSE Get(genoparts, obj)
        mapped == _map_allele_type_to_geno(r.allele_type)
        allele_id == Zfin(r.allele_id)
        hasgene == r.gene_id # << >>
        gene_id == Zfin(r.gene_id)
        hasconstruct == r.construct_id # << >>
        construct_id == Zfin(r.construct_id)
    IN  /\ pc = "features"
        /\ IF r.ncols # Columns
           THEN Raise(r, lc, <<"ValueError">>)    \* the unpacking at line 174
           ELSE IF background_id # None /\ background_label = None
           THEN Raise(r, lc, <<"TypeError">>)     \* str + None at line 183
           ELSE
             /\ line_counter' = lc
             /\ row' = r
             /\ genotype_id' = gid
             /\ log' = IF mapped.logged
                       THEN log \cup {Error("Allele Type not mapped")}
                       ELSE log
             /\ graph' = graph
                  \o <<AddGenotype(gid, genotype_name, None, None),
                       AddAllele(allele_id, r.allele_name, mapped.type)>>
                  \o (IF hasgene
                      THEN <<AddGene(gene_id, r.gene_symbol)>>
                           \o (IF hasconstruct
                               THEN <<AddDerivesFrom(allele_id, construct_id)>>
                               ELSE << >>)
                           \o <<AddAlleleOfGene(allele_id, gene_id)>>
                      ELSE << >>)
             /\ label_hash' =
                  [label_hash EXCEPT
                     !.genotype_label = PutIfAbsent(@, gid, genotype_name),
                     !.gene_label =
                        IF hasgene THEN PutIfAbsent(@, gene_id, r.gene_symbol)
                        ELSE @,
                     !.allele_label = PutIfAbsent(@, allele_id, r.allele_name),
                     !.construct_label =
                        IF hasgene /\ hasconstruct
                        THEN PutIfAbsent(@, construct_id, r.construct_name)
                        ELSE @]
             /\ genoparts' =
                  Put(genoparts, obj,
                      IF hasgene
                      THEN KnownGeneParts(parts, gene_id, allele_id, r.zygosity)
                      ELSE UnknownGeneParts(parts, allele_id, r.zygosity))
             /\ geno_hash' =
                  IF hasgene THEN Put(geno_hash, gid, obj)
                  ELSE Put(Put(geno_hash, gid, obj), allele_id, obj)
             /\ pc' = IF LimitReached(lc) THEN "features_break" ELSE "features"
             /\ UNCHANGED <<limit, exception, wildtype_hash,
                            genotype_id_to_background_id_hash, gvc_hash,
                            vslc_label_hash, gt_idx>>
        /\ UNCHANGED <<label_vars, mgi_vars, gu_vars, rest_vars>>

\* the end of genotype_features.txt (or the break): the row loop is left
EndFeatures ==
    /\ pc \in {"features", "features_break"}
    /\ pc' = "vslcs"
    /\ gt_idx' = 1
    /\ UNCHANGED <<limit, line_counter, exception, label_hash, wildtype_hash,
                   genotype_id_to_background_id_hash, geno_hash, genoparts,
                   row, genotype_id, gvc_hash, vslc_label_hash, graph, log>>
    /\ UNCHANGED <<label_vars, mgi_vars, gu_vars, rest_vars>>

----------------------------------------------------------------------------
(* ZFIN._process_genotype_features: the loop over geno_hash (lines 254-339) *)

\* the zygosity rule with the two comparisons of the alleles exchanged
Zygosity_swapped(variant_locus_parts) ==
    LET allele1_id == variant_locus_parts[1]
        second == IF Len(variant_locus_parts) > 1
                  THEN variant_locus_parts[2] ELSE None
        second_label == IF Len(variant_locus_parts) > 1
                        THEN Get(label_hash.allele_label, second) ELSE None
    IN  IF second # None
        THEN IF second = sentinel
             THEN [allele2_id |-> None, allele2_label |-> sentinel,
                   zygosity_id |-> indeterminate]
             ELSE [allele2_id |-> second, allele2_label |-> second_label,
                   zygosity_id |-> IF allele1_id # second THEN homozygous
                                   ELSE heterozygous]
        ELSE [allele2_id |-> None, allele2_label |-> None,
              zygosity_id |-> indeterminate]

\* lines 268-290: the second allele, its label and the zygosity of a locus
Zygosity(variant_locus_parts) ==
    LET allele1_id == variant_locus_parts[1]
        second == IF Len(variant_locus_parts) > 1
                  THEN variant_locus_parts[2] ELSE None
        second_label == IF Len(variant_locus_parts) > 1
                        THEN Get(label_hash.allele_label, second) ELSE None
    IN  IF second # None
        THEN IF second = sentinel
             THEN [allele2_id |-> None, allele2_label |-> sentinel,
                   zygosity_id |-> indeterminate]
             ELSE IF second = <<"complex">>
             THEN [allele2_id |-> second, allele2_label |-> second_label,
                   zygosity_id |-> None]
             ELSE IF allele1_id # second
             THEN [allele2_id |-> second, allele2_label |-> second_label,
                   zygosity_id |-> heterozygous]
             ELSE [allele2_id |-> second, allele2_label |-> second_label,
                   zygosity_id |-> homozygous]
        ELSE [allele2_id |-> None, allele2_label |-> None,
              zygosity_id |-> indeterminate]

\* lines 293-302: the id of a VSLC
VslcId(gene_id, allele1_id, allele2_id) ==
    LET g == IF gene_id = None THEN << >> ELSE gene_id
        a2 == IF allele2_id = None THEN << >> ELSE allele2_id
    IN  make_id(join(<<"-">>, <<g, allele1_id, a2>>))

\* the label rule with the gene label left off the second allele
VslcLabel_noSecondPrefix(gene_label, allele1_label, allele2_label) ==
    IF allele1_label = None THEN [label |-> << >>, logged |-> TRUE]
    ELSE LET g == IF gene_label = None THEN << >> ELSE gene_label
         IN  IF allele2_label = None
             THEN [label |-> g \o <<"<">> \o allele1_label \o <<">">>,
                   logged |-> FALSE]
             ELSE [label |-> g \o <<"<">> \o allele1_label \o <<">", "/">>
                             \o <<"<">> \o allele2_label \o <<">">>,
                   logged |-> FALSE]

\* lines 308-318: the label of a VSLC, and whether the error was logged
VslcLabel(gene_label, allele1_label, allele2_label) ==
    IF gene_label # None /\ allele1_label # None /\ allele2_label # None
    THEN [label |-> gene_label \o <<"<">> \o allele1_label \o <<">", "/">>
                    \o gene_label \o <<"<">> \o allele2_label \o <<">">>,
          logged |-> FALSE]
    ELSE IF gene_label = None /\ allele1_label # None /\ allele2_label # None
    THEN [label |-> <<"<">> \o allele1_label \o <<">", "/", "<">> \o allele2_label
                    \o <<">">>,
          logged |-> FALSE]
    ELSE IF gene_label # None /\ allele1_label # None /\ allele2_label = None
    THEN [label |-> gene_label \o <<"<">> \o allele1_label \o <<">">>,
          logged |-> FALSE]
    ELSE IF gene_label = None /\ allele1_label # None /\ allele2_label = None
    THEN [label |-> <<"<">> \o allele1_label \o <<">">>, logged |-> FALSE]
    ELSE [label |-> << >>, logged |-> TRUE]

\* the VSLC of a locus with the key of geno_hash mixed into its id
BuildVSLC_perGenotype(gt, key, variant_locus_parts) ==
    LET gene_label == Get(label_hash.gene_label, key)
        gene_id == IF key \in Elems(variant_locus_parts) THEN None ELSE key
        allele1_id == variant_locus_parts[1]
        allele1_label == Get(label_hash.allele_label, allele1_id)
        z == Zygosity(variant_locus_parts)
        lab == VslcLabel(gene_label, allele1_label, z.allele2_label)
    IN  [vslc_id |-> make_id(gt \o <<"-">>
                             \o join(<<"-">>, <<IF gene_id = None THEN << >> ELSE gene_id,
                                               allele1_id,
                                               IF z.allele2_id = None THEN << >>
                                               ELSE z.allele2_id>>)),
         vslc_label |-> lab.label,
         logged |-> lab.logged,
         allele1_id |-> allele1_id,
         allele2_id |-> z.allele2_id,
         zygosity_id |-> z.zygosity_id]

\* lines 262-318: the VSLC of the locus `key` of the genoparts that gt refers to
BuildVSLC(gt, key, variant_locus_parts) ==
    LET gene_label == Get(label_hash.gene_label, key)
        gene_id == IF key \in Elems(variant_locus_parts) THEN None ELSE key
        allele1_id == variant_locus_parts[1]
        allele1_label == Get(label_hash.allele_label, allele1_id)
        z == Zygosity(variant_locus_parts)
        lab == VslcLabel(gene_label, allele1_label, z.allele2_label)
    IN  [vslc_id |-> VslcId(gene_id, allele1_id, z.allele2_id),
         vslc_label |-> lab.label,
         logged |-> lab.logged,
         allele1_id |-> allele1_id,
         allele2_id |-> z.allele2_id,
         zygosity_id |-> z.zygosity_id]

\* the step of a locus with the VSLC declared for the first locus only
VslcStep_declareFirstOnly(gt, key, variant_locus_parts, acc) ==
    LET v == BuildVSLC(gt, key, variant_locus_parts)
        gt_vslc == gt \o <<"vslc">>
    IN  [graph |-> acc.graph
            \o (IF acc.vslc_counter = 0
                THEN <<AddIndividualToGraph(v.vslc_id, v.vslc_label,
                                            variant_single_locus_complement)>>
                ELSE << >>)
            \o <<AddPartsToVSLC(v.vslc_id, v.allele1_id, v.allele2_id,
                                v.zygosity_id)>>,
         log |-> IF v.logged
                 THEN acc.log \cup {Error("No VSLC label created.")}
                 ELSE acc.log,
         gvcparts |->
            IF acc.vslc_counter = 0
            THEN Put(acc.gvcparts, gt_vslc, <<v.vslc_id>>)
            ELSE IF ~Has(acc.gvcparts, v.vslc_id)
            THEN Put(acc.gvcparts, gt_vslc,
                     Append(Get(acc.gvcparts, gt_vslc), v.vslc_id))
            ELSE acc.gvcparts,
         vslc_label_hash |->
            IF ~Has(acc.vslc_label_hash, gt_vslc)
            THEN Put(acc.vslc_label_hash, gt_vslc, <<v.vslc_label>>)
            ELSE IF v.vslc_id \notin Elems(Get(acc.vslc_label_hash, gt_vslc))
            THEN Put(acc.vslc_label_hash, gt_vslc,
                     Append(Get(acc.vslc_label_hash, gt_vslc), v.vslc_label))
            ELSE acc.vslc_label_hash,
         vslc_counter |-> acc.vslc_counter + 1]
\* lines 321-339: what one locus adds to the graph and to the two hashes
VslcStep(gt, key, variant_locus_parts, acc) ==
    LET v == BuildVSLC(gt, key, variant_locus_parts)
        gt_vslc == gt \o <<"vslc">>
    IN  [graph |-> acc.graph
            \o <<AddIndividualToGraph(v.vslc_id, v.vslc_label,
                                      variant_single_locus_complement),
                 AddPartsToVSLC(v.vslc_id, v.allele1_id, v.allele2_id,
                                v.zygosity_id)>>,
         log |-> IF v.logged
                 THEN acc.log \cup {Error("No VSLC label created.")}
                 ELSE acc.log,
         gvcparts |->
            IF acc.vslc_counter = 0
            THEN Put(acc.gvcparts, gt_vslc, <<v.vslc_id>>)
            ELSE IF ~Has(acc.gvcparts, v.vslc_id)
            THEN Put(acc.gvcparts, gt_vslc,
                     Append(Get(acc.gvcparts, gt_vslc), v.vslc_id))
            ELSE acc.gvcparts,
         vslc_label_hash |->
            IF ~Has(acc.vslc_label_hash, gt_vslc)
            THEN Put(acc.vslc_label_hash, gt_vslc, <<v.vslc_label>>)
            ELSE IF v.vslc_id \notin Elems(Get(acc.vslc_label_hash, gt_vslc))
            THEN Put(acc.vslc_label_hash, gt_vslc,
                     Append(Get(acc.vslc_label_hash, gt_vslc), v.vslc_label))
            ELSE acc.vslc_label_hash,
         vslc_counter |-> acc.vslc_counter + 1]

RECURSIVE VslcLoop(_, _, _, _)
\* line 261: for gene_id in geno_hash.get(gt), from position i on
VslcLoop(gt, d, i, acc) ==
    IF i > Len(d) THEN acc
    ELSE VslcLoop(gt, d, i + 1, VslcStep(gt, d[i].k, d[i].v, acc))

\* lines 254-339: one turn of `for gt in geno_hash`
BuildVSLCs ==
    /\ pc = "vslcs"
    /\ gt_idx <= Len(geno_hash)
    /\ LET gt == geno_hash[gt_idx].k
           d == Get(genoparts, geno_hash[gt_idx].v)
           gvcparts == IF Has(gvc_hash, genotype_id)
                       THEN Get(gvc_hash, genotype_id) ELSE << >>
           r == VslcLoop(gt, d, 1,
                         [graph |-> graph, log |-> log, gvcparts |-> gvcparts,
                          vslc_label_hash |-> vslc_label_hash,
                          vslc_counter |-> 0])
       IN  /\ graph' = r.graph
           /\ log' = r.log
           /\ gvc_hash' = Put(gvc_hash, genotype_id, r.gvcparts)
           /\ vslc_label_hash' = r.vslc_label_hash
    /\ gt_idx' = gt_idx + 1
    /\ UNCHANGED <<pc, limit, line_counter, exception, label_hash,
                   wildtype_hash, genotype_id_to_background_id_hash,
                   geno_hash, genoparts, row, genotype_id>>
    /\ UNCHANGED <<label_vars, mgi_vars, gu_vars, rest_vars>>

----------------------------------------------------------------------------
(* ZFIN._process_genotype_features: the loop over gvc_hash (lines 347-371) *)

\* the id of a GVC with its parts taken from the last to the first
GvcId_reversed(genomic_variation_complement_parts) ==
    make_id(join(<<"-">>,
                 [i \in 1..Len(genomic_variation_complement_parts) |->
                    genomic_variation_complement_parts[
                        Len(genomic_variation_complement_parts) + 1 - i]]))

\* line 357: the id of a GVC
GvcId(genomic_variation_complement_parts) ==
    make_id(join(<<"-">>, genomic_variation_complement_parts))

\* the label of a GVC with its parts taken from the last to the first
GvcLabel_reversed(gvc_label_parts) ==
    join(<<";", " ">>,
         [i \in 1..Len(gvc_label_parts) |->
            gvc_label_parts[Len(gvc_label_parts) + 1 - i]])
\* line 359: the label of a GVC
GvcLabel(gvc_label_parts) == join(<<";", " ">>, gvc_label_parts)

RECURSIVE AddVslcsToGvc(_, _, _)
\* lines 365-367: the triples from a GVC to its parts
AddVslcsToGvc(gvc_id, parts, i) ==
    IF i > Len(parts) THEN << >>
    ELSE <<AddTriple(gvc_id, has_alternate_part, parts[i])>>
         \o AddVslcsToGvc(gvc_id, parts, i + 1)

RECURSIVE GvcInner(_, _, _)
\* lines 351-367: for vslc_id in gvc_hash.get(gt), from position i on
GvcInner(gvcparts, i, acc) ==
    IF i > Len(gvcparts) THEN acc
    ELSE LET parts == gvcparts[i].v
             gvc_id == GvcId(parts)
             gvc_label == GvcLabel(Get(vslc_label_hash, gvcparts[i].k))
         IN  GvcInner(gvcparts, i + 1,
                [gvc_id |-> gvc_id,
                 graph |-> acc.graph
                    \o <<AddIndividualToGraph(gvc_id, gvc_label,
                                              genomic_variation_complement)>>
                    \o AddVslcsToGvc(gvc_id, parts, 1)])

RECURSIVE GvcLoop(_, _)
\* lines 347-371: for gt in gvc_hash, from position i on
GvcLoop(i, g) ==
    IF i > Len(gvc_hash) THEN g
    ELSE LET gt == gvc_hash[i].k
             r == GvcInner(gvc_hash[i].v, 1,
                           [gvc_id |-> <<"<", "empty", ">">>, graph |-> g])
         IN  GvcLoop(i + 1,
                     Append(r.graph, AddTriple(gt, has_alternate_part, r.gvc_id)))

BuildGVCs ==
    /\ pc = "vslcs"
    /\ gt_idx > Len(geno_hash)
    /\ graph' = GvcLoop(1, graph)
    /\ log' = log \cup {Info("Done with genotypes")}
    /\ pc' = "done"
    /\ UNCHANGED <<limit, line_counter, exception, label_hash, wildtype_hash,
                   genotype_id_to_background_id_hash, geno_hash, genoparts,
                   row, genotype_id, gvc_hash, vslc_label_hash, gt_idx>>
    /\ UNCHANGED <<label_vars, mgi_vars, gu_vars, rest_vars>>

----------------------------------------------------------------------------
(* The rows of genotype_features.txt that the runs read *)

Row(g, a, gene, zyg, type, cons, n) ==
    [ncols |-> n,
     genotype_id |-> g, genotype_name |-> <<"n">> \o g,
     allele_id |-> a, allele_name |-> <<"l">> \o a, allele_type |-> type,
     gene_id |-> gene,
     gene_symbol |-> IF gene = << >> THEN << >> ELSE <<"s">> \o gene,
     zygosity |-> zyg,
     construct_id |-> cons,
     construct_name |-> IF cons = << >> THEN << >> ELSE <<"Tg">>]

GenotypeIds == {<<"G1">>, <<"G2">>}
AlleleIds == {<<"a1">>, <<"a2">>}
GeneIds == {<<"g1">>, <<"g2">>}
Hints == {homozygous, unknown, heterozygous}

FeatureRows ==
    {Row(g, a, gene, zyg, <<"deletion">>, << >>, Columns) :
        g \in GenotypeIds, a \in AlleleIds, gene \in GeneIds \cup {<< >>},
        zyg \in Hints}
    \cup {Row(<<"G1">>, <<"a1">>, <<"g1">>, <<"complex">>,
              <<"transgenic_insertion">>, <<"c1">>, Columns),
          Row(<<"G1">>, <<"a1">>, <<"g1">>, heterozygous, <<"bogus">>, << >>, Columns),
          Row(<<"G1">>, <<"a1">>, <<"g1">>, heterozygous, <<"deletion">>, << >>,
              Columns - 1)}

OrderRows ==
    {Row(g, ga[2], ga[1], heterozygous, <<"deletion">>, << >>, Columns) :
        g \in GenotypeIds, ga \in {<<(<<"g1">>), (<<"a1">>)>>, <<(<<"g2">>), (<<"a2">>)>>}}

----------------------------------------------------------------------------
(* The runs *)

\* parse() on empty wildtypes.txt and genotype_backgrounds.txt
Next ==
    \/ EndWildtypes
    \/ EndBackgrounds
    \/ (line_counter < MaxRows /\ \E r \in FeatureRows : ProcessFeatureRow(r))
    \/ EndFeatures
    \/ BuildVSLCs
    \/ BuildGVCs

Spec == Init /\ [][Next]_vars

\* parse() with wildtypes and backgrounds, on rows that differ in genotype
\* and locus only
NextParse ==
    \/ (line_counter < MaxWild /\ \E r \in WildRows : ProcessWildtypeRow(r))
    \/ EndWildtypes
    \/ (line_counter < MaxBack /\ \E r \in BackRows : ProcessBackgroundRow(r))
    \/ EndBackgrounds
    \/ (line_counter < MaxRowsOrder /\ \E r \in OrderRows : ProcessFeatureRow(r))
    \/ EndFeatures
    \/ BuildVSLCs
    \/ BuildGVCs

SpecParse == Init /\ [][NextParse]_vars

----------------------------------------------------------------------------
(* Properties of ZFIN._process_genotype_features *)

\* positions of geno_hash whose key is a genotype id
GenotypeKeys ==
    {i \in 1..Len(geno_hash) : geno_hash[i].k \in {Zfin(g) : g \in GenotypeIds}}

\* the genoparts dict that position i of geno_hash refers to
PartsAt(i) == Get(genoparts, geno_hash[i].v)

\* (gene id or empty, allele1 id, allele2 id or empty) of a locus
LocusTriple(key, L) ==
    << IF key \in Elems(L) THEN << >> ELSE key,
       L[1],
       IF Len(L) > 1 /\ L[2] # sentinel THEN L[2] ELSE << >> >>

\* the VSLC id that the three parts of a locus stand for
TripleId(t) == <<"_">> \o t[1] \o <<"-">> \o t[2] \o <<"-">> \o t[3]

\* the VSLC ids of the loci of position i of geno_hash, in the order of the dict
LocusIds(i) ==
    [j \in 1..Len(PartsAt(i)) |->
        TripleId(LocusTriple(PartsAt(i)[j].k, PartsAt(i)[j].v))]

\* the GVC id that a list of VSLC ids stands for
ListId(ids) == <<"_">> \o join(<<"-">>, ids)

Calls(op) == {graph[i] : i \in {j \in 1..Len(graph) : graph[j].op = op}}

\* the GVCs declared in the graph, and the parts the graph gives a GVC
GvcDecls ==
    {c.a : c \in {x \in Calls("addIndividualToGraph") :
                    x.c = genomic_variation_complement}}
GvcPartsOf(x) ==
    {c.c : c \in {y \in Calls("addTriple") :
                    y.a = x /\ y.b = has_alternate_part}}

\* C1: once the genotype features are processed, every genotype id of a
\* processed row has a has_alternate_part triple to the GVC built from the
\* loci of that genotype.
C1_EveryGenotypeLinkedToItsGvc ==
    pc = "done" =>
        \A i \in GenotypeKeys :
            InGraph(AddTriple(geno_hash[i].k, has_alternate_part,
                              ListId(LocusIds(i))))

\* the trichotomy of C2 for one addPartsToVSLC call
ZygosityConsistent(c) ==
    /\ c.b # None
    /\ \/ c.c = c.b /\ c.d = homozygous
       \/ c.c \notin {None, sentinel, c.b} /\ c.d = heterozygous
       \/ c.c = None /\ c.d = indeterminate

\* the call that C2 expects for a locus list
ExpectedParts(key, L) ==
    IF Len(L) > 1 /\ L[2] = L[1]
    THEN AddPartsToVSLC(TripleId(LocusTriple(key, L)), L[1], L[1], homozygous)
    ELSE IF Len(L) > 1 /\ L[2] # sentinel
    THEN AddPartsToVSLC(TripleId(LocusTriple(key, L)), L[1], L[2], heterozygous)
    ELSE AddPartsToVSLC(TripleId(LocusTriple(key, L)), L[1], None, indeterminate)

\* C2: every VSLC handed to the graph has an allele1, and its allele2 and
\* zygosity are: allele1 again and homozygous, or another allele that is not
\* the sentinel and heterozygous, or no allele2 and indeterminate; which of
\* the three is decided by the first two entries of the locus list.
C2_VslcZygosityConsistent ==
    /\ \A c \in Calls("addPartsToVSLC") : ZygosityConsistent(c)
    /\ pc = "done" =>
         \A i \in 1..Len(geno_hash) : \A j \in 1..Len(PartsAt(i)) :
            InGraph(ExpectedParts(PartsAt(i)[j].k, PartsAt(i)[j].v))

C2_Witness ==
    /\ pc = "done"
    /\ \E c \in Calls("addPartsToVSLC") :
         c.d = heterozygous /\ c.c # c.b /\ c.c # None

\* the VSLC id the run recorded for locus j of position i of geno_hash
EmittedId(i, j) ==
    Get(Get(gvc_hash, genotype_id), geno_hash[i].k \o <<"vslc">>)[j]

\* C3: two loci with the same (gene id or empty, allele1 id, allele2 id or
\* empty), in one genotype or in two, get the same VSLC id.
C3_VslcIdFromTriple ==
    pc = "done" =>
        \A i1, i2 \in 1..Len(geno_hash) :
          \A j1 \in 1..Len(PartsAt(i1)) : \A j2 \in 1..Len(PartsAt(i2)) :
            LocusTriple(PartsAt(i1)[j1].k, PartsAt(i1)[j1].v)
              = LocusTriple(PartsAt(i2)[j2].k, PartsAt(i2)[j2].v)
            => EmittedId(i1, j1) = EmittedId(i2, j2)

C3_Witness ==
    /\ pc = "done"
    /\ \E i1, i2 \in GenotypeKeys :
         /\ i1 # i2
         /\ \E j1 \in 1..Len(PartsAt(i1)) : \E j2 \in 1..Len(PartsAt(i2)) :
              /\ LocusTriple(PartsAt(i1)[j1].k, PartsAt(i1)[j1].v)
                   = LocusTriple(PartsAt(i2)[j2].k, PartsAt(i2)[j2].v)
              /\ EmittedId(i1, j1) = EmittedId(i2, j2)

\* C4 as stated: the GVC id is computed from the sorted set of its VSLC ids,
\* so two GVCs with the same set of VSLC ids have the same id.
C4_GvcIdFromSortedSet ==
    pc = "done" =>
        \A x, y \in GvcDecls : GvcPartsOf(x) = GvcPartsOf(y) => x = y

\* C4 as amended: the GVC id is computed from the list of the VSLC ids of the
\* loci in the order the loci were first met, unsorted; every key of
\* geno_hash gets the GVC of that list, and no other GVC is declared.
C4_GvcIdInDiscoveryOrder ==
    pc = "done" =>
        /\ \A i \in 1..Len(geno_hash) : ListId(LocusIds(i)) \in GvcDecls
        /\ \A x \in GvcDecls :
             \E i \in 1..Len(geno_hash) : x = ListId(LocusIds(i))

C4_Witness ==
    /\ pc = "done"
    /\ \E i \in GenotypeKeys :
         /\ Len(LocusIds(i)) > 1
         /\ ListId(LocusIds(i)) \in GvcDecls
         /\ GvcPartsOf(ListId(LocusIds(i))) = Elems(LocusIds(i))

\* C5: a row without the expected number of columns ends in no unhandled
\* exception; it is skipped and the rows after it are read.
C5_MalformedRowSkipped ==
    ~(pc = "crashed" /\ exception = <<"ValueError">>)

\* some locus of some genotype has more than two entries
TooManyAlleles ==
    \E i \in 1..Len(geno_hash) : \E j \in 1..Len(PartsAt(i)) :
        Len(PartsAt(i)[j].v) > 2

\* the log records of _process_genotype_features that concern something else
OtherRecords ==
    {Error("Allele Type not mapped"), Error("No VSLC label created."),
     Info("Processing wildtype genotypes"), Info("Done with wildtype genotypes"),
     Info("Processing genotype backgrounds"), Info("Done with genotype backgrounds"),
     Info("Processing Genotypes"), Info("Done with genotypes")}

\* C6: when a locus has more than two entries the condition is logged, the
\* VSLC is built from the first two entries, and the run goes on.
C6_TooManyAllelesReported ==
    (pc = "done" /\ TooManyAlleles) =>
        /\ log \ OtherRecords # {}
        /\ \A i \in 1..Len(geno_hash) : \A j \in 1..Len(PartsAt(i)) :
             InGraph(ExpectedParts(PartsAt(i)[j].k, PartsAt(i)[j].v))

\* C7: a genotype whose background id has no recorded label does not end the
\* run: the row is processed and the genotype is declared with a text label.
C7_MissingBackgroundLabelHandled ==
    ~(pc = "crashed" /\ exception = <<"TypeError">>)

\* C9: a processed row extends the list of its locus (keyed by the gene id,
\* or by the allele id when the gene is unknown) by [allele, allele] for the
\* hint 'homozygous', by [allele, '?'] for 'unknown' and by [allele]
\* otherwise; the entries the list had are kept.
C9_RowAppendsToLocusList ==
    [][(pc = "features" /\ pc' \in {"features", "features_break"}
        /\ line_counter' = line_counter + 1) =>
        LET r == row'
            gid == Zfin(r.genotype_id)
            a == Zfin(r.allele_id)
            key == IF r.gene_id # << >> THEN Zfin(r.gene_id) ELSE a
            oldparts == IF Has(geno_hash, gid)
                        THEN Get(genoparts, Get(geno_hash, gid)) ELSE << >>
            old == IF Has(oldparts, key) THEN Get(oldparts, key) ELSE << >>
            new == Get(Get(genoparts', Get(geno_hash', gid)), key)
            ext == IF r.zygosity = homozygous THEN <<a, a>>
                   ELSE IF r.zygosity = unknown THEN <<a, sentinel>>
                   ELSE <<a>>
        IN  new = old \o ext]_vars

\* the label of the VSLC of a locus, from the labels the rows recorded
LocusLabel(key, L) ==
    LET g == IF Has(label_hash.gene_label, key)
             THEN Get(label_hash.gene_label, key) ELSE << >>
        l1 == Get(label_hash.allele_label, L[1])
        l2 == IF L[2] = sentinel THEN sentinel
              ELSE Get(label_hash.allele_label, L[2])
    IN  IF Len(L) > 1
        THEN g \o <<"<">> \o l1 \o <<">", "/">> \o g \o <<"<">> \o l2 \o <<">">>
        ELSE g \o <<"<">> \o l1 \o <<">">>

\* the VSLC labels of the loci of position i of geno_hash, in the order of the dict
LocusLabels(i) ==
    [j \in 1..Len(PartsAt(i)) |-> LocusLabel(PartsAt(i)[j].k, PartsAt(i)[j].v)]

\* the declarations of GVCs in the graph
GvcDeclCalls ==
    {x \in Calls("addIndividualToGraph") : x.c = genomic_variation_complement}

\* C11: every key of geno_hash gets a GVC declared with the labels of the
\* VSLCs of its loci joined by '; ', one label per locus, in the order the
\* loci were first met (unsorted); no GVC is declared with another label.
C11_GvcLabelJoinsVslcLabels ==
    pc = "done" =>
        /\ \A i \in 1..Len(geno_hash) :
             InGraph(AddIndividualToGraph(ListId(LocusIds(i)),
                                          join(<<";", " ">>, LocusLabels(i)),
                                          genomic_variation_complement))
        /\ \A c \in GvcDeclCalls :
             \E i \in 1..Len(geno_hash) :
                /\ c.a = ListId(LocusIds(i))
                /\ c.b = join(<<";", " ">>, LocusLabels(i))

\* a genotype whose locus g2 was met before its locus g1
C11_Witness ==
    /\ pc = "done"
    /\ \E i \in GenotypeKeys :
         /\ Len(PartsAt(i)) = 2
         /\ PartsAt(i)[1].k = Zfin(<<"g2">>)
         /\ PartsAt(i)[2].k = Zfin(<<"g1">>)
         /\ LocusLabels(i)[1] # LocusLabels(i)[2]
         /\ InGraph(AddIndividualToGraph(
                ListId(LocusIds(i)),
                LocusLabels(i)[1] \o <<";", " ">> \o LocusLabels(i)[2],
                genomic_variation_complement))
\* a step of the row loop of _process_genotype_features that processed a row
FeatureRowProcessed ==
    /\ pc = "features"
    /\ pc' \in {"features", "features_break"}
    /\ line_counter' = line_counter + 1

\* C12: the genotype a feature row declares is labelled
\* name + ' [' + background label + ']' when the genotype has a background,
\* and name + ' [n.s.]' when it has none.
C12_IntrinsicGenotypeLabel ==
    [][FeatureRowProcessed =>
        LET gid == Zfin(row'.genotype_id)
            known == Has(genotype_id_to_background_id_hash, gid)
            background == Get(genotype_id_to_background_id_hash, gid)
            expected ==
                IF known
                THEN row'.genotype_name \o <<" ", "[">>
                     \o Get(label_hash.background_label, background) \o <<"]">>
                ELSE row'.genotype_name \o <<" ", "[", "n", ".", "s", ".", "]">>
        IN  /\ Len(graph') > Len(graph)
            /\ graph'[Len(graph) + 1] = AddGenotype(gid, expected, None, None)]_vars

\* a genotype declared with its background and one declared without
C12_Witness ==
    /\ InGraph(AddGenotype(Zfin(<<"G1">>),
                           <<"n", "G1", " ", "[", "AB", "]">>, None, None))
    /\ InGraph(AddGenotype(Zfin(<<"G2">>),
                           <<"n", "G2", " ", "[", "n", ".", "s", ".", "]">>,
                           None, None))
----------------------------------------------------------------------------
(* The VSLC label rule on its own: every combination of present and absent *)
(* labels                                                                  *)

LabelInputs ==
    [gene_label : {None, << >>, <<"g">>, <<"h">>},
     allele1_label : {None, << >>, <<"a1">>, <<"a2">>},
     allele2_label : {None, sentinel, << >>, <<"a1">>, <<"a2">>}]

InitLabel ==
    /\ ParseStart(NoLimit) /\ MgiStart /\ GuStart /\ RestStart
    /\ vl_in \in LabelInputs
    /\ vl_out = NoResult

\* lines 308-318 applied to the three labels
ComposeVslcLabel ==
    /\ vl_out = NoResult
    /\ vl_out' = <<VslcLabel(vl_in.gene_label, vl_in.allele1_label,
                             vl_in.allele2_label)>>
    /\ UNCHANGED <<vl_in, zfin_vars, mgi_vars, gu_vars, rest_vars>>

NextLabel == ComposeVslcLabel

SpecLabel == InitLabel /\ [][NextLabel]_vars

\* C10: the VSLC label is gene<a1>/gene<a2> when the gene label and both
\* allele labels are present, <a1>/<a2> when only the gene label is absent,
\* the bracketed allele1 (behind the gene label when there is one) when only
\* the label of allele1 is present, and empty, with a log record, when the
\* label of allele1 is absent.
C10_VslcLabelRule ==
    vl_out # NoResult =>
        LET g == vl_in.gene_label
            out == vl_out[1]
            a1 == vl_in.allele1_label
            a2 == vl_in.allele2_label
            prefix == IF g = None THEN << >> ELSE g
        IN  IF a1 = None
            THEN out.label = << >> /\ out.logged
            ELSE IF a2 = None
            THEN out.label = prefix \o <<"<">> \o a1 \o <<">">>
                 /\ ~out.logged
            ELSE out.label = prefix \o <<"<">> \o a1 \o <<">", "/">>
                                \o prefix \o <<"<">> \o a2 \o <<">">>
                 /\ ~out.logged

C10_Witness ==
    /\ vl_out # NoResult
    /\ vl_in.gene_label = <<"g">>
    /\ vl_in.allele1_label = <<"a1">>
    /\ vl_in.allele2_label = <<"a2">>
    /\ vl_out[1].label = <<"g", "<", "a1", ">", "/", "g", "<", "a2", ">">>

----------------------------------------------------------------------------
(* MGI._process_gxd_allele_pair_view (src/sources/MGI.py); the triples are *)
(* kept with the curies handed to CurieUtil                                *)

blank == " "

RECURSIVE lstrip(_)
lstrip(s) == IF Len(s) > 0 /\ s[1] = blank THEN lstrip(Tail(s)) ELSE s

RECURSIVE rstrip(_)
rstrip(s) ==
    IF Len(s) > 0 /\ s[Len(s)] = blank THEN rstrip(SubSeq(s, 1, Len(s) - 1))
    ELSE s

\* str.strip()
strip(s) == rstrip(lstrip(s))

zygosity_type_map ==
    << [k |-> <<"Heterozygous">>, v |-> <<"GENO", ":", "0000135">>],
       [k |-> <<"Hemizygous", " ", "Y", "-", "linked">>, v |-> <<"GENO", ":", "0000604">>],
       [k |-> <<"Heteroplasmic">>, v |-> <<"GENO", ":", "0000603">>],
       [k |-> <<"Homozygous">>, v |-> <<"GENO", ":", "0000136">>],
       [k |-> <<"Homoplasmic">>, v |-> <<"GENO", ":", "0000602">>],
       [k |-> <<"Hemizygous", " ", "Insertion">>, v |-> <<"GENO", ":", "0000606">>],
       [k |-> <<"Hemizygous", " ", "Deletion">>, v |-> <<"GENO", ":", "0000606">>],
       [k |-> <<"Hemizygous", " ", "X", "-", "linked">>, v |-> <<"GENO", ":", "0000605">>],
       [k |-> <<"Indeterminate">>, v |-> <<"GENO", ":", "0000137">>] >>

\* MGI._map_zygosity: the mapped term (or None), and whether the error was printed
_map_zygosity(zygosity) ==
    IF Has(zygosity_type_map, strip(zygosity))
    THEN [type |-> Get(zygosity_type_map, zygosity), printed |-> FALSE]
    ELSE [type |-> None, printed |-> TRUE]

AllelePairRows ==
    [allelepair_key : {<<"1">>, <<"2">>}, genotype_key : {<<"7">>},
     allele_key_1 : {<<"11">>}, allele_key_2 : {<<"12">>},
     allele1 : {<<"A", "<", "tm1", ">">>}, allele2 : {<<"A", "<", "+", ">">>},
     allelestate : {<<"Heterozygous">>, <<"Homozygous">>, <<"Indeterminate">>,
                    <<"Homozygous", " ">>, <<"Conditional">>}]

rdf_type == <<"rdf:type">>
rdfs_label == <<"rdfs:label">>
owl_hasPart == <<"owl:hasPart">>
has_zygosity == <<"has_zygosity">>

ProcessAllelePairRow(r) ==
    LET lc == mgi_line_counter + 1
        igt == <<"genotypekey">> \o r.genotype_key
        iallele1 == <<"allelekey">> \o r.allele_key_1
        iallele2 == <<"allelekey">> \o r.allele_key_2
        z == _map_zygosity(r.allelestate)
        ivslc == <<"vslckey">> \o r.allelepair_key
        vslc_label == r.allele1 \o <<"/">> \o r.allele2
    IN  /\ mgi_pc = "rows"
        /\ mgi_line' = r
        /\ mgi_line_counter' = lc
        /\ mgi_out' = IF z.printed
                      THEN mgi_out \cup {<<"ERROR: Allele Type (">> \o r.allelestate
                                         \o <<") not mapped">>}
                      ELSE mgi_out
        /\ mgi_graph' = mgi_graph \cup
              {<<ivslc, rdf_type, variant_single_locus_complement>>,
               <<ivslc, rdfs_label, vslc_label>>,
               <<igt, owl_hasPart, ivslc>>,
               <<ivslc, owl_hasPart, iallele1>>,
               <<ivslc, owl_hasPart, iallele2>>,
               <<ivslc, has_zygosity, z.type>>}
        /\ mgi_pc' = IF mgi_limit # NoLimit /\ lc > mgi_limit[1]
                     THEN "done" ELSE "rows"
        /\ UNCHANGED <<mgi_limit, zfin_vars, label_vars, gu_vars, rest_vars>>

\* the end of the file
EndAllelePairs ==
    /\ mgi_pc = "rows"
    /\ mgi_pc' = "done"
    /\ UNCHANGED <<mgi_limit, mgi_line, mgi_line_counter, mgi_graph, mgi_out>>
    /\ UNCHANGED <<zfin_vars, label_vars, gu_vars, rest_vars>>

NextMGI ==
    \/ (mgi_line_counter < MaxPairs
        /\ \E r \in AllelePairRows : ProcessAllelePairRow(r))
    \/ EndAllelePairs

SpecMGI == Init /\ [][NextMGI]_vars

\* C8: a zygosity hint outside the vocabulary is logged and the VSLC of the
\* row gets the zygosity Indeterminate, never an absent one.
C8_UnmappedHintIsIndeterminate ==
    [][(mgi_line_counter' = mgi_line_counter + 1
        /\ ~Has(zygosity_type_map, strip(mgi_line'.allelestate))) =>
        /\ mgi_out' # {}
        /\ <<(<<"vslckey">> \o mgi_line'.allelepair_key), has_zygosity,
             (<<"GENO", ":", "0000137">>)>> \in mgi_graph'
        /\ <<(<<"vslckey">> \o mgi_line'.allelepair_key), has_zygosity, None>>
             \notin mgi_graph']_vars

----------------------------------------------------------------------------
(* ZFIN._process_g2p: one row of the phenotype file.  Where the code joins  *)
(* two texts without a separator the tokens of both are kept.              *)

MaxG2P == 2         \* rows of the phenotype file read in SpecG2P

effective_genotype == <<"effective_genotype">>

Warn(msg) == [level |-> "warn", msg |-> msg]

\* Genotype.addParts(part_id, parent_id)
AddParts(part_id, parent_id) ==
    [op |-> "addParts", a |-> part_id, b |-> parent_id, c |-> None, d |-> None]
\* G2PAssoc(assoc_id, entity_id, phenotype_id, pub, eco).addAssociationNodeToGraph
AddAssociationNodeToGraph(assoc_id, entity_id, phenotype_id, pub_id) ==
    [op |-> "addAssociationNodeToGraph", a |-> assoc_id, b |-> entity_id,
     c |-> phenotype_id, d |-> pub_id]

\* the label rule with the two labels exchanged
EffectiveGenotypeLabel_swapped(intrinsic_genotype_label, extrinsic_genotype_label) ==
    IF intrinsic_genotype_label # None /\ extrinsic_genotype_label # None
    THEN [label |-> extrinsic_genotype_label \o <<";", " ">>
                    \o intrinsic_genotype_label,
          logged |-> FALSE]
    ELSE IF intrinsic_genotype_label = None /\ extrinsic_genotype_label # None
    THEN [label |-> extrinsic_genotype_label, logged |-> FALSE]
    ELSE IF intrinsic_genotype_label # None /\ extrinsic_genotype_label = None
    THEN [label |-> intrinsic_genotype_label, logged |-> FALSE]
    ELSE [label |-> <<"<", "empty">>, logged |-> TRUE]

\* lines 771-782: the label of the effective genotype, and whether the error
\* was logged
EffectiveGenotypeLabel(intrinsic_genotype_label, extrinsic_genotype_label) ==
    IF intrinsic_genotype_label # None /\ extrinsic_genotype_label # None
    THEN [label |-> intrinsic_genotype_label \o <<";", " ">>
                    \o extrinsic_genotype_label,
          logged |-> FALSE]
    ELSE IF intrinsic_genotype_label = None /\ extrinsic_genotype_label # None
    THEN [label |-> extrinsic_genotype_label, logged |-> FALSE]
    ELSE IF intrinsic_genotype_label # None /\ extrinsic_genotype_label = None
    THEN [label |-> intrinsic_genotype_label, logged |-> FALSE]
    ELSE [label |-> <<"<", "empty">>, logged |-> TRUE]

\* the rows: phenotype_id is what _map_sextuple_to_phenotype finds for the
\* six terms of the row, None when zp_map has no entry for them
G2PRows ==
    {[genotype_id |-> g, genotype_name |-> <<"n">> \o g, env_id |-> e,
      phenotype_id |-> p, modifier |-> m, pub_id |-> <<"P1">>] :
        g \in GenotypeIds, e \in {<<"E1">>, <<"E2">>},
        p \in {None, <<"ZP", ":", "1">>},
        m \in {<<"abnormal">>, <<"normal">>}}

ProcessG2PRow(r) ==
    LET lc == line_counter + 1
        gid == Zfin(r.genotype_id)
        env_id == Zfin(r.env_id)
        extrinsic_geno_id == make_id(env_id)
        effective_genotype_id == make_id(gid \o <<"_">> \o env_id)
        lab == EffectiveGenotypeLabel(
                   Get(label_hash.genotype_label, gid),
                   Get(label_hash.genotype_label, extrinsic_geno_id))
        mapped == r.phenotype_id # None
        normal == r.modifier[1] = "normal"
        assoc_id == make_id(gid \o env_id \o r.phenotype_id \o r.pub_id)
    IN  /\ pc = "g2p"
        /\ line_counter' = lc
        /\ row' = r
        /\ graph' = graph
             \o <<AddGenotype(gid, r.genotype_name, None, None),
                  AddGenotype(effective_genotype_id, lab.label,
                              effective_genotype, None),
                  AddParts(extrinsic_geno_id, effective_genotype_id),
                  AddParts(gid, effective_genotype_id)>>
             \o (IF mapped /\ ~normal
                 THEN <<AddAssociationNodeToGraph(assoc_id, effective_genotype_id,
                                                  r.phenotype_id, Zfin(r.pub_id))>>
                 ELSE << >>)
        /\ log' = log
             \cup (IF lab.logged
                   THEN {Error("No effective genotype label created.")} ELSE {})
             \cup (IF ~mapped THEN {Warn("Couldn't map ZP id")} ELSE {})
             \cup (IF mapped /\ normal
                   THEN {Warn("Found normal phenotype; skipping for now")}
                   ELSE {})
        \* the continue at line 795 passes over the break
        /\ pc' = IF mapped /\ LimitReached(lc) THEN "g2p_break" ELSE "g2p"
        /\ UNCHANGED <<limit, exception, label_hash, wildtype_hash,
                       genotype_id_to_background_id_hash, geno_hash, genoparts,
                       genotype_id, gvc_hash, vslc_label_hash, gt_idx>>
        /\ UNCHANGED <<label_vars, mgi_vars, gu_vars, rest_vars>>

\* the end of the phenotype file (or the break): parse() ends
EndG2P ==
    /\ pc \in {"g2p", "g2p_break"}
    /\ pc' = "parsed"
    /\ log' = log \cup {Info("Finished parsing.")}
    /\ UNCHANGED <<limit, line_counter, exception, label_hash, wildtype_hash,
                   genotype_id_to_background_id_hash, geno_hash, genoparts,
                   row, genotype_id, gvc_hash, vslc_label_hash, gt_idx, graph>>
    /\ UNCHANGED <<label_vars, mgi_vars, gu_vars, rest_vars>>

\* the genotype labels the earlier steps of parse() may have left: that of
\* the genotype G1 (line 193) and that of the extrinsic genotype of the
\* environment E1 (line 1621), each recorded or not
G2PLabelStates ==
    {i \o e :
        i \in {<< >>, <<[k |-> Zfin(<<"G1">>),
                         v |-> <<"n", "G1", " ", "[", "n", ".", "s", ".", "]">>]>>},
        e \in {<< >>, <<[k |-> make_id(Zfin(<<"E1">>)), v |-> <<"tgc", "E1">>]>>}}

InitG2P ==
    /\ pc = "g2p"
    /\ limit = NoLimit
    /\ line_counter = 0
    /\ exception = None
    /\ label_hash \in {[EmptyLabelHash EXCEPT !.genotype_label = L] :
                         L \in G2PLabelStates}
    /\ wildtype_hash = [id |-> << >>, symbol |-> << >>]
    /\ genotype_id_to_background_id_hash = << >>
    /\ geno_hash = << >>
    /\ genoparts = << >>
    /\ row = None
    /\ genotype_id = None
    /\ gvc_hash = << >>
    /\ vslc_label_hash = << >>
    /\ gt_idx = 0
    /\ graph = << >>
    /\ log = {Info("Processing G2P")}
    /\ LabelIdle
    /\ MgiStart
    /\ GuStart
    /\ RestStart

NextG2P ==
    \/ (line_counter < MaxG2P /\ \E r \in G2PRows : ProcessG2PRow(r))
    \/ EndG2P

SpecG2P == InitG2P /\ [][NextG2P]_vars
----------------------------------------------------------------------------
(* Properties of ZFIN._process_g2p *)

\* a step of the row loop of _process_g2p
G2PRowProcessed == pc = "g2p" /\ line_counter' = line_counter + 1

\* the declaration of the effective genotype that the step added
EffectiveDeclared == graph'[Len(graph) + 2]

\* the two labels the step looked up
IntrinsicLabelOf(r) == Get(label_hash.genotype_label, Zfin(r.genotype_id))
ExtrinsicLabelOf(r) == Get(label_hash.genotype_label, make_id(Zfin(r.env_id)))

\* C13: the effective genotype of a row is declared with the label
\* intrinsic + '; ' + extrinsic when both labels are recorded, and with the
\* recorded one when only one of them is.
C13_EffectiveLabelRule ==
    [][G2PRowProcessed =>
        LET i == IntrinsicLabelOf(row')
            e == ExtrinsicLabelOf(row')
        IN  /\ EffectiveDeclared.op = "addGenotype"
            /\ EffectiveDeclared.a =
                 <<"_">> \o Zfin(row'.genotype_id) \o <<"_">> \o Zfin(row'.env_id)
            /\ EffectiveDeclared.c = effective_genotype
            /\ (i # None /\ e # None) =>
                 EffectiveDeclared.b = i \o <<";", " ">> \o e
            /\ (i # None /\ e = None) => EffectiveDeclared.b = i
            /\ (i = None /\ e # None) => EffectiveDeclared.b = e]_vars

\* an effective genotype labelled from both labels and one labelled from the
\* extrinsic label alone
C13_Witness ==
    /\ InGraph(AddGenotype(
           <<"_", "ZFIN", ":", "G1", "_", "ZFIN", ":", "E1">>,
           <<"n", "G1", " ", "[", "n", ".", "s", ".", "]", ";", " ", "tgc", "E1">>,
           effective_genotype, None))
    /\ InGraph(AddGenotype(
           <<"_", "ZFIN", ":", "G2", "_", "ZFIN", ":", "E1">>,
           <<"tgc", "E1">>, effective_genotype, None))

\* C14: when neither label is recorded the effective genotype is declared
\* with the empty string as its label, and the condition is logged.
C14_NoLabelGivesEmptyString ==
    [][(G2PRowProcessed /\ IntrinsicLabelOf(row') = None
                        /\ ExtrinsicLabelOf(row') = None) =>
        /\ EffectiveDeclared.b = << >>
        /\ Error("No effective genotype label created.") \in log']_vars
----------------------------------------------------------------------------
(* GraphUtils.addIndividualToGraph on the rdflib graph, which is a set of   *)
(* triples: adding a triple the graph holds leaves the graph as it is       *)

OWLIND == <<"owl:NamedIndividual">>

\* lines 131-143: the triples that a call of addIndividualToGraph adds
IndividualTriples(c) ==
    (IF c.b # None THEN {<<c.a, rdfs_label, c.b>>} ELSE {})
    \cup {<<c.a, rdf_type, IF c.c # None THEN c.c ELSE OWLIND>>}

\* the VSLC declarations handed to the graph, and what the graph holds of them
VslcDeclCalls ==
    {x \in Calls("addIndividualToGraph") : x.c = variant_single_locus_complement}
VslcTriples == UNION {IndividualTriples(c) : c \in VslcDeclCalls}

\* C15: a VSLC id that arises for several keys of geno_hash is declared in
\* the graph once: the graph holds one rdf:type and one rdfs:label triple
\* for it.
C15_VslcDeclaredOnce ==
    pc = "done" =>
        \A c \in VslcDeclCalls :
            Cardinality({t \in VslcTriples : t[1] = c.a}) = 2
\* the positions of the graph history that hold a GVC -> VSLC triple
GvcPartTriples ==
    {i \in 1..Len(graph) :
        /\ graph[i].op = "addTriple"
        /\ graph[i].b = has_alternate_part
        /\ graph[i].a \in GvcDecls}

\* C16: when a has_alternate_part triple from a GVC to a VSLC is added, the
\* VSLC was declared in the graph before.
C16_VslcDeclaredBeforeGvcLink ==
    \A i \in GvcPartTriples :
        \E j \in 1..(i - 1) :
            /\ graph[j].op = "addIndividualToGraph"
            /\ graph[j].a = graph[i].c
            /\ graph[j].c = variant_single_locus_complement

\* a GVC linked to two VSLCs
C16_Witness ==
    /\ pc = "done"
    /\ \E i, k \in GvcPartTriples :
         /\ graph[i].a = graph[k].a
         /\ graph[i].c # graph[k].c
         /\ graph[i].c \in {c.a : c \in VslcDeclCalls}
         /\ graph[k].c \in {c.a : c \in VslcDeclCalls}
----------------------------------------------------------------------------
(* Alleles and their genes *)

\* C17: no allele has allele-of links to two genes: every addAlleleOfGene
\* call for an allele names the same gene.
C17_AlleleOfOneGene ==
    \A x, y \in Calls("addAlleleOfGene") : x.a = y.a => x.b = y.b
----------------------------------------------------------------------------
(* Genotypes and the GVCs they are linked to *)

\* the position of geno_hash that holds the key k
KeyIndex(k) == CHOOSE i \in 1..Len(geno_hash) : geno_hash[i].k = k

\* C21: every has_alternate_part triple from a genotype id leads to the GVC
\* built from the loci of that genotype, never to the GVC of another key of
\* geno_hash.
C21_GenotypeLinkedToOwnGvc ==
    pc = "done" =>
        \A c \in Calls("addTriple") :
            (c.b = has_alternate_part /\ c.a \in {Zfin(g) : g \in GenotypeIds})
            => c.c = ListId(LocusIds(KeyIndex(c.a)))
\* a locus list that lines 275-289 classify as homozygous
HomozygousList(L) == Len(L) > 1 /\ L[1] = L[2]

\* C22: a locus comes to be classified homozygous only by a row that carries
\* the hint 'homozygous'; rows with another hint never turn the locus list of
\* their gene into one that yields a homozygous VSLC.
C22_HomozygousOnlyByHint ==
    [][FeatureRowProcessed =>
        LET r == row'
            gid == Zfin(r.genotype_id)
            key == IF r.gene_id # << >> THEN Zfin(r.gene_id) ELSE Zfin(r.allele_id)
            oldparts == IF Has(geno_hash, gid)
                        THEN Get(genoparts, Get(geno_hash, gid)) ELSE << >>
            old == IF Has(oldparts, key) THEN Get(oldparts, key) ELSE << >>
            new == Get(Get(genoparts', Get(geno_hash', gid)), key)
        IN  (HomozygousList(new) /\ ~HomozygousList(old))
            => r.zygosity = homozygous]_vars
\* C23: over a whole run every VSLC id is declared with one label: two
\* declarations of the same id carry the same label.
C23_OneLabelPerVslcId ==
    \A x, y \in VslcDeclCalls : x.a = y.a => x.b = y.b
----------------------------------------------------------------------------
(* parse(limit) with a number for limit *)

MaxLimitRows == 3   \* rows that each file holds in SpecLimit

Limits == {<<1>>, <<2>>}

InitLimit ==
    (\E lim \in Limits : ParseStart(lim)) /\ LabelIdle /\ MgiStart /\ GuStart
    /\ RestStart

NextLimit ==
    \/ (line_counter < MaxLimitRows /\ \E r \in WildRows : ProcessWildtypeRow(r))
    \/ EndWildtypes
    \/ (line_counter < MaxLimitRows /\ \E r \in BackRows : ProcessBackgroundRow(r))
    \/ EndBackgrounds
    \/ (line_counter < MaxLimitRows /\ \E r \in OrderRows : ProcessFeatureRow(r))
    \/ EndFeatures
    \/ BuildVSLCs
    \/ BuildGVCs

SpecLimit == InitLimit /\ [][NextLimit]_vars

\* the rows of genotype_features.txt that left something in the graph
FeatureRowsInGraph ==
    Cardinality({i \in 1..Len(graph) : graph[i].op = "addAllele"})

\* C18: with limit N every row loop processes the first N rows of its file
\* at most: line_counter, the number of rows the running loop has processed,
\* stays within N, and the graph holds the alleles of N feature rows at most.
C18_AtMostLimitRowsProcessed ==
    limit # NoLimit =>
        /\ line_counter <= limit[1]
        /\ FeatureRowsInGraph <= limit[1]
----------------------------------------------------------------------------
(* GraphUtils: nodes and deprecation.  A node is the text of its IRI or of  *)
(* its blank node id behind the name of its rdflib class.                   *)

MaxGuCalls == 2     \* calls made on a GraphUtils object in SpecGraphUtils
MaxNewIds == 2      \* length of the newids list of a deprecation

URIRef(x) == <<"URIRef">> \o x
BNode(x) == <<"BNode">> \o x
Literal(x) == <<"Literal">> \o x

\* CurieUtil.get_uri: the IRI of the prefix before the first ':' followed by
\* the rest of the curie; None for a text without ':' or an unknown prefix
get_uri(curie) ==
    IF curie = None \/ ":" \notin Elems(curie) THEN None
    ELSE LET i == CHOOSE k \in 1..Len(curie) :
                    curie[k] = ":" /\ \A j \in 1..(k - 1) : curie[j] # ":"
             prefix == SubSeq(curie, 1, i - 1)
         IN  IF Has(gu_curie_map, prefix)
             THEN Get(gu_curie_map, prefix) \o SubSeq(curie, i + 1, Len(curie))
             ELSE None

OWLCLASS == <<"owl:Class">>
owl_deprecated == <<"owl:deprecated">>
consider == <<"OIO", ":", "consider">>
replaced_by == <<"IAO", ":", "0100001">>

\* newids: << >> for None, <<list>> for a list of ids
NoNewIds == << >>

\* the replacement triples with the consider triples added for a single id too
_addReplacementIds_considerToo(oldid, newids) ==
    LET n1 == URIRef(get_uri(oldid))
    IN  {<<n1, owl_deprecated, Literal(<<"true">>)>>}
        \cup (IF newids # NoNewIds /\ Len(newids[1]) = 1
              THEN {<<n1, URIRef(get_uri(replaced_by)),
                      URIRef(get_uri(newids[1][1]))>>}
              ELSE {})
        \cup (IF newids # NoNewIds /\ Len(newids[1]) > 0
              THEN {<<n1, URIRef(get_uri(consider)),
                      URIRef(get_uri(strip(newids[1][i])))>> :
                        i \in 1..Len(newids[1])}
              ELSE {})

\* lines 228-243: the triples _addReplacementIds adds
_addReplacementIds(oldid, newids) ==
    LET n1 == URIRef(get_uri(oldid))
    IN  {<<n1, owl_deprecated, Literal(<<"true">>)>>}
        \cup (IF newids # NoNewIds
              THEN IF Len(newids[1]) = 1
                   THEN {<<n1, URIRef(get_uri(replaced_by)),
                           URIRef(get_uri(newids[1][1]))>>}
                   ELSE IF Len(newids[1]) > 0
                   THEN {<<n1, URIRef(get_uri(consider)),
                           URIRef(get_uri(strip(newids[1][i])))>> :
                             i \in 1..Len(newids[1])}
                   ELSE {}
              ELSE {})

\* lines 188-206
addDeprecatedClass(oldid, newids) ==
    {<<URIRef(get_uri(oldid)), rdf_type, OWLCLASS>>}
    \cup _addReplacementIds(oldid, newids)

\* lines 208-226
addDeprecatedIndividual(oldid, newids) ==
    {<<URIRef(get_uri(oldid)), rdf_type, OWLIND>>}
    \cup _addReplacementIds(oldid, newids)

\* re.match(r'^http', curie), on the words of the model that begin so
StartsWithHttp(curie) == curie # << >> /\ curie[1] \in {"http", "https"}

GuResult(node, added, logged, raised) ==
    [node |-> node, added |-> added, logged |-> logged, raised |-> raised]

\* the node test of the last branch turned around
_getNode_testInverted(curie, materialize_bnode) ==
    LET base == Get(gu_curie_map, << >>)
    IN  IF curie # None /\ curie # << >> /\ curie[1] = "_"
        THEN IF materialize_bnode
             THEN GuResult(URIRef(base \o curie), {}, FALSE, FALSE)
             ELSE LET a == Tail(curie)
                      b == IF a # << >> /\ a[1] = ":" THEN Tail(a) ELSE a
                  IN  GuResult(BNode(b), {}, FALSE, FALSE)
        ELSE IF curie = None
        THEN GuResult(None, {}, FALSE, TRUE)
        ELSE IF curie # << >> /\ curie[1] = ":"
        THEN GuResult(URIRef(base \o Tail(curie)), {}, FALSE, FALSE)
        ELSE IF StartsWithHttp(curie)
        THEN GuResult(URIRef(curie), {}, FALSE, FALSE)
        ELSE IF get_uri(curie) = None
        THEN GuResult(URIRef(get_uri(curie)), {}, FALSE, FALSE)
        ELSE GuResult(None, {}, TRUE, FALSE)

\* lines 403-434: the node of a curie; None, with the error logged, when the
\* curie has no IRI; re.match raises on a curie that is None
_getNode(curie, materialize_bnode) ==
    LET base == Get(gu_curie_map, << >>)
    IN  IF curie # None /\ curie # << >> /\ curie[1] = "_"
        THEN IF materialize_bnode
             THEN GuResult(URIRef(base \o curie), {}, FALSE, FALSE)
             ELSE LET a == Tail(curie)
                      b == IF a # << >> /\ a[1] = ":" THEN Tail(a) ELSE a
                  IN  GuResult(BNode(b), {}, FALSE, FALSE)
        ELSE IF curie = None
        THEN GuResult(None, {}, FALSE, TRUE)
        ELSE IF curie # << >> /\ curie[1] = ":"
        THEN GuResult(URIRef(base \o Tail(curie)), {}, FALSE, FALSE)
        ELSE IF StartsWithHttp(curie)
        THEN GuResult(URIRef(curie), {}, FALSE, FALSE)
        ELSE IF get_uri(curie) # None
        THEN GuResult(URIRef(get_uri(curie)), {}, FALSE, FALSE)
        ELSE GuResult(None, {}, TRUE, FALSE)
GuCall(op, id, newids, materialize_bnode) ==
    [op |-> op, id |-> id, newids |-> newids,
     materialize_bnode |-> materialize_bnode]

\* the ids and the lists of new ids that the callers hand over
OldIds == {<<"OMIM", ":", "1">>}
NewIds == {<<"OMIM", ":", "2">>, <<"OMIM", ":", "3">>}
NewIdArgs ==
    {NoNewIds} \cup {<<L>> : L \in UNION {[1..n -> NewIds] : n \in 0..MaxNewIds}}

\* the curie maps, and the curies the nodes are asked for
CurieMaps ==
    {CurieMapBase,
     Append(CurieMapBase,
            [k |-> <<"NCBIGene">>, v |-> <<"http", ":", "/", "/", "ncbigene", "/">>])}
TestPrefixes == {<< >>, <<"OMIM">>, <<"IAO">>, <<"OIO">>, <<"NCBIGene">>, <<"ZFIN">>}
TestCuries ==
    {p \o <<":", "testme">> : p \in TestPrefixes}
    \cup {<<"_", ":", "b1">>, <<"_", "b2">>, <<"http", ":", "/", "/", "x">>,
          <<"testme">>}

AddDeprecatedClass(oldid, newids) ==
    LET added == addDeprecatedClass(oldid, newids)
    IN  /\ gu_n' = gu_n + 1
        /\ gu_call' = <<GuCall("addDeprecatedClass", oldid, newids, FALSE)>>
        /\ gu_graph' = gu_graph \cup added
        /\ gu_ret' = <<GuResult(None, added, FALSE, FALSE)>>
        /\ UNCHANGED <<gu_curie_map, zfin_vars, label_vars, mgi_vars, rest_vars>>

AddDeprecatedIndividual(oldid, newids) ==
    LET added == addDeprecatedIndividual(oldid, newids)
    IN  /\ gu_n' = gu_n + 1
        /\ gu_call' = <<GuCall("addDeprecatedIndividual", oldid, newids, FALSE)>>
        /\ gu_graph' = gu_graph \cup added
        /\ gu_ret' = <<GuResult(None, added, FALSE, FALSE)>>
        /\ UNCHANGED <<gu_curie_map, zfin_vars, label_vars, mgi_vars, rest_vars>>

\* GraphUtils.getNode(id, materialize_bnode)
GetNode(id, materialize_bnode) ==
    /\ gu_n' = gu_n + 1
    /\ gu_call' = <<GuCall("getNode", id, NoNewIds, materialize_bnode)>>
    /\ gu_ret' = <<_getNode(id, materialize_bnode)>>
    /\ UNCHANGED <<gu_curie_map, gu_graph, zfin_vars, label_vars, mgi_vars, rest_vars>>

InitGraphUtils ==
    /\ ParseStart(NoLimit) /\ LabelIdle /\ MgiStart /\ RestStart
    /\ gu_curie_map \in CurieMaps
    /\ gu_graph = {}
    /\ gu_n = 0
    /\ gu_call = NoResult
    /\ gu_ret = NoResult

NextGraphUtils ==
    \/ (gu_n < MaxGuCalls /\ \E o \in OldIds : \E n \in NewIdArgs :
            AddDeprecatedClass(o, n))
    \/ (gu_n < MaxGuCalls /\ \E o \in OldIds : \E n \in NewIdArgs :
            AddDeprecatedIndividual(o, n))
    \/ (gu_n < MaxGuCalls /\ \E c \in TestCuries : \E m \in BOOLEAN :
            GetNode(c, m))

SpecGraphUtils == InitGraphUtils /\ [][NextGraphUtils]_vars

----------------------------------------------------------------------------
(* Properties of GraphUtils *)

\* the node of an OMIM id, and the nodes of the two properties
OmimNode(curie) == <<"URIRef", "http", ":", "/", "/", "omim", "/", curie[3]>>
ReplacedByNode == <<"URIRef", "http", ":", "/", "/", "obo", "/", "IAO", "_", "0100001">>
ConsiderNode == <<"URIRef", "http", ":", "/", "/", "oio", "#", "consider">>

LastIsDeprecation ==
    /\ gu_call # NoResult
    /\ gu_call[1].op \in {"addDeprecatedClass", "addDeprecatedIndividual"}

\* C19: a deprecation marks the old id owl:deprecated; with one new id it
\* adds one replaced_by triple and no consider triple; with more than one it
\* adds a consider triple for each new id (as many triples as ids when the
\* ids differ) and no replaced_by triple; with an empty list or None it adds
\* neither.
C19_DeprecationTriples ==
    LastIsDeprecation =>
        LET c == gu_call[1]
            added == gu_ret[1].added
            n1 == OmimNode(c.id)
            L == IF c.newids = NoNewIds THEN << >> ELSE c.newids[1]
            rep == {t \in added : t[2] = ReplacedByNode}
            con == {t \in added : t[2] = ConsiderNode}
        IN  /\ <<n1, owl_deprecated, <<"Literal", "true">> >> \in added
            /\ added \subseteq gu_graph
            /\ Len(L) = 0 => (rep = {} /\ con = {})
            /\ Len(L) = 1 =>
                 (rep = {<<n1, ReplacedByNode, OmimNode(L[1])>>} /\ con = {})
            /\ Len(L) > 1 =>
                 /\ rep = {}
                 /\ con = {<<n1, ConsiderNode, OmimNode(L[i])>> : i \in 1..Len(L)}
                 /\ (\A i, j \in 1..Len(L) : i # j => L[i] # L[j])
                      => Cardinality(con) = Len(L)

\* a deprecation with two new ids that differ
C19_Witness ==
    /\ LastIsDeprecation
    /\ gu_call[1].newids # NoNewIds
    /\ Len(gu_call[1].newids[1]) = 2
    /\ gu_call[1].newids[1][1] # gu_call[1].newids[1][2]
    /\ Cardinality({t \in gu_ret[1].added : t[2] = ConsiderNode}) = 2

\* C20: getNode(p + ':testme') returns a node for every prefix p of the
\* curie map, never None.
C20_EveryPrefixGivesNode ==
    (/\ gu_call # NoResult
     /\ gu_call[1].op = "getNode"
     /\ gu_call[1].id \in {p \o <<":", "testme">> : p \in Elems(Keys(gu_curie_map))})
    => /\ gu_ret[1].node # None
       /\ ~gu_ret[1].raised

\* the node of a prefix that CurieUtil resolves
C20_Witness ==
    /\ gu_call # NoResult
    /\ gu_call[1].op = "getNode"
    /\ gu_call[1].id = <<"NCBIGene", ":", "testme">>
    /\ gu_ret[1].node = <<"URIRef", "http", ":", "/", "/", "ncbigene", "/", "testme">>
----------------------------------------------------------------------------
(* ZFIN._process_morpholinos: one row of the morpholino file *)

MaxMorph == 3       \* rows of the morpholino file read in SpecEnv
MaxEnv == 2         \* rows of pheno_environment.txt read in SpecEnv
MaxEnvG2P == 1      \* rows of the phenotype file read in SpecEnv

environment == <<"environment">>
extrinsic_genotype == <<"extrinsic_genotype">>
mentions == <<"mentions">>

\* d[k] for a key that d holds
At(d, k) == d[CHOOSE i \in 1..Len(d) : d[i].k = k].v

\* Genotype.addGeneTargetingReagent(reagent_id, reagent_label, reagent_type)
AddGeneTargetingReagent(id, label, type) ==
    [op |-> "addGeneTargetingReagent", a |-> id, b |-> label, c |-> type, d |-> None]
\* GraphUtils.addComment(g, subject_id, comment)
AddComment(id, note) ==
    [op |-> "addComment", a |-> id, b |-> note, c |-> None, d |-> None]
\* GraphUtils.addIndividualToGraph(g, id, label, type, description)
AddDescribedIndividualToGraph(id, label, type, desc) ==
    [op |-> "addIndividualToGraph", a |-> id, b |-> label, c |-> type, d |-> desc]
\* Genotype.addTargetedGeneSubregion(tgs_id, tgs_label)
AddTargetedGeneSubregion(id, label) ==
    [op |-> "addTargetedGeneSubregion", a |-> id, b |-> label, c |-> None, d |-> None]
\* Genotype.addReagentTargetedGene(reagent_id, gene_id, targeted_gene_id, label)
AddReagentTargetedGene(reagent_id, gene_id, id, label) ==
    [op |-> "addReagentTargetedGene", a |-> id, b |-> label, c |-> reagent_id,
     d |-> gene_id]
\* Genotype.addTargetedGeneComplement(tgc_id, tgc_label)
AddTargetedGeneComplement(id, label) ==
    [op |-> "addTargetedGeneComplement", a |-> id, b |-> label, c |-> None, d |-> None]

M1 == <<"ZDB", "-", "MRPHLNO", "-", "1">>
M2 == <<"ZDB", "-", "MRPHLNO", "-", "2">>

\* the rows: M1 targets two genes of one symbol, M2 targets one gene
MorphRows ==
    {[gene_id |-> <<"g1">>, gene_symbol |-> <<"sa">>, morpholino_id |-> M1,
      morpholino_so_id |-> <<"SO", ":", "1">>, morpholino_symbol |-> <<"MO1">>,
      publication |-> <<"P1">>, note |-> << >>],
     [gene_id |-> <<"g2">>, gene_symbol |-> <<"sa">>, morpholino_id |-> M1,
      morpholino_so_id |-> <<"SO", ":", "1">>, morpholino_symbol |-> <<"MO1">>,
      publication |-> << >>, note |-> <<"n">>],
     [gene_id |-> <<"g2">>, gene_symbol |-> <<"sb">>, morpholino_id |-> M2,
      morpholino_so_id |-> <<"SO", ":", "1">>, morpholino_symbol |-> <<"MO2">>,
      publication |-> << >>, note |-> << >>]}

\* parse() calling _process_pheno_enviro ahead of _process_morpholinos
StartMorpholinos_afterEnviro ==
    /\ pc = "done"
    /\ pc' = "pheno_enviro"
    /\ line_counter' = 0
    /\ log' = log \cup {Info("Processing phenotype environments")}
    /\ UNCHANGED <<limit, exception, label_hash, wildtype_hash,
                   genotype_id_to_background_id_hash, geno_hash, genoparts,
                   row, genotype_id, gvc_hash, vslc_label_hash, gt_idx, graph>>
    /\ UNCHANGED <<label_vars, mgi_vars, gu_vars, rest_vars>>
\* the call of _process_morpholinos that follows _process_genotype_features
StartMorpholinos ==
    /\ pc = "done"
    /\ pc' = "morpholinos"
    /\ line_counter' = 0
    /\ log' = log \cup {Info("Processing Morpholinos")}
    /\ UNCHANGED <<limit, exception, label_hash, wildtype_hash,
                   genotype_id_to_background_id_hash, geno_hash, genoparts,
                   row, genotype_id, gvc_hash, vslc_label_hash, gt_idx, graph>>
    /\ UNCHANGED <<label_vars, mgi_vars, gu_vars, rest_vars>>

ProcessMorpholinoRow(r) ==
    LET lc == line_counter + 1
        morpholino_id == Zfin(r.morpholino_id)
        gene_id == Zfin(r.gene_id)
        pub_id == Zfin(r.publication)
        reagent_target ==
            (IF Has(kd_reagent_hash.kd_reagent_id, morpholino_id)
             THEN At(kd_reagent_hash.kd_reagent_id, morpholino_id) ELSE << >>)
            \o <<gene_id>>
    IN  /\ pc = "morpholinos"
        /\ line_counter' = lc
        /\ row' = r
        /\ graph' = graph
             \o <<AddGeneTargetingReagent(morpholino_id, r.morpholino_symbol,
                                          r.morpholino_so_id)>>
             \o (IF r.publication # << >>
                 THEN <<AddIndividualToGraph(pub_id, None, None),
                        AddTriple(pub_id, mentions, morpholino_id)>>
                 ELSE << >>)
             \o (IF r.note # << >> THEN <<AddComment(morpholino_id, r.note)>>
                 ELSE << >>)
        /\ kd_reagent_hash' =
             [kd_reagent_id |->
                  Put(kd_reagent_hash.kd_reagent_id, morpholino_id, reagent_target),
              kd_reagent_label |->
                  PutIfAbsent(kd_reagent_hash.kd_reagent_label, morpholino_id,
                              r.morpholino_symbol),
              gene_label |->
                  PutIfAbsent(kd_reagent_hash.gene_label, gene_id, r.gene_symbol)]
        /\ pc' = IF LimitReached(lc) THEN "morpholinos_break" ELSE "morpholinos"
        /\ UNCHANGED <<limit, exception, label_hash, wildtype_hash,
                       genotype_id_to_background_id_hash, geno_hash, genoparts,
                       genotype_id, gvc_hash, vslc_label_hash, gt_idx, log>>
        /\ UNCHANGED <<extrinsic_part_hash, kd_reagent_conc_hash,
                       kd_reagent_conc_label_hash>>
        /\ UNCHANGED <<label_vars, mgi_vars, gu_vars, src_vars>>

\* the end of the morpholino file (or the break) and the start of
\* _process_pheno_enviro with its three empty dicts
EndMorpholinos ==
    /\ pc \in {"morpholinos", "morpholinos_break"}
    /\ pc' = "pheno_enviro"
    /\ line_counter' = 0
    /\ extrinsic_part_hash' = << >>
    /\ kd_reagent_conc_hash' = << >>
    /\ kd_reagent_conc_label_hash' = << >>
    /\ log' = log \cup {Info("Done with Morpholinos"),
                        Info("Processing phenotype environments")}
    /\ UNCHANGED <<limit, exception, label_hash, wildtype_hash,
                   genotype_id_to_background_id_hash, geno_hash, genoparts,
                   row, genotype_id, gvc_hash, vslc_label_hash, gt_idx, graph>>
    /\ UNCHANGED kd_reagent_hash
    /\ UNCHANGED <<label_vars, mgi_vars, gu_vars, src_vars>>
----------------------------------------------------------------------------
(* ZFIN._process_pheno_enviro: one row of pheno_environment.txt *)

RECURSIVE Replace(_, _, _)
\* s.replace(old, new) for a one-character old
Replace(s, old, new) ==
    IF s = << >> THEN << >>
    ELSE (IF s[1] = old THEN new ELSE <<s[1]>>) \o Replace(Tail(s), old, new)

\* re.match('ZDB-MRPHLNO.*', condition)
IsMorpholino(condition) ==
    Len(condition) >= 3 /\ SubSeq(condition, 1, 3) = <<"ZDB", "-", "MRPHLNO">>

\* lines 1451-1455: units, None for 'N/A'
CleanUnits(units) ==
    IF units = <<"N", "/", "A">> THEN None
    ELSE Replace(units, "/", <<"_">>)

\* lines 1424-1425 and 1458-1465: values, None for ''
CleanValues(values) ==
    LET v == IF values # << >> /\ values[1] = "\\" THEN << >> ELSE values
    IN  IF v = << >> THEN None
        ELSE Replace(Replace(Replace(v, " ", <<"_">>),
                             "<", <<"less", "_", "than", "_">>),
                     ">", <<"greater", "_", "than", "_">>)

\* lines 1471-1477: the id and the label of the concentration
Concentration(condition, values, units) ==
    IF units # None /\ values # None
    THEN [id |-> condition \o <<"_">> \o values \o units,
          label |-> <<"(">> \o values \o <<" ">> \o units \o <<")">>]
    ELSE [id |-> condition \o <<"_", "ns">>,
          label |-> <<"(", "n", ".", "s", ".", ")">>]

\* d[k1][k2] = v unless d[k1] holds k2, with d[k1] = {} made first
PutInnerIfAbsent(d, k1, k2, v) ==
    Put(d, k1, PutIfAbsent(IF Has(d, k1) THEN At(d, k1) ELSE << >>, k2, v))

\* lines 1481-1487: the conditions of an extrinsic genotype, each once
AddCondition(d, extrinsic_geno_id, condition) ==
    IF ~Has(d, extrinsic_geno_id) THEN Put(d, extrinsic_geno_id, <<condition>>)
    ELSE IF condition \in Elems(At(d, extrinsic_geno_id)) THEN d
    ELSE Put(d, extrinsic_geno_id, Append(At(d, extrinsic_geno_id), condition))

EnvRows ==
    {[environment_id |-> <<"E1">>, condition_group |-> <<"morpholino">>,
      condition |-> M1, values |-> <<"5">>, units |-> <<"ng">>],
     [environment_id |-> <<"E1">>, condition_group |-> <<"morpholino">>,
      condition |-> M1, values |-> << >>, units |-> <<"N", "/", "A">>],
     [environment_id |-> <<"E1">>, condition_group |-> <<"morpholino">>,
      condition |-> M2, values |-> <<"<", " ", "5">>, units |-> <<"ng", "/", "ul">>],
     [environment_id |-> <<"E1">>, condition_group |-> <<"temperature">>,
      condition |-> <<"heat">>, values |-> <<"37">>, units |-> <<"C">>],
     [environment_id |-> <<"E2">>, condition_group |-> <<"morpholino">>,
      condition |-> M1, values |-> <<"5">>, units |-> <<"ng">>],
     [environment_id |-> <<"E2">>, condition_group |-> <<"temperature">>,
      condition |-> <<"heat">>, values |-> <<"37">>, units |-> <<"C">>]}

ProcessEnviroRow(r) ==
    LET lc == line_counter + 1
        environment_id == Zfin(r.environment_id)
        extrinsic_geno_id == make_id(environment_id)
        condition == Zfin(r.condition)
        conc == Concentration(condition, CleanValues(r.values), CleanUnits(r.units))
        known == Has(kd_reagent_hash.kd_reagent_label, condition)
        targeted_gene_subregion_label ==
            <<"<">> \o At(kd_reagent_hash.kd_reagent_label, condition)
                    \o <<" ">> \o conc.label \o <<">">>
    IN  /\ pc = "pheno_enviro"
        /\ line_counter' = lc
        /\ row' = r
        /\ IF ~IsMorpholino(r.condition)
           THEN /\ pc' = IF LimitReached(lc) THEN "pheno_enviro_break"
                         ELSE "pheno_enviro"
                /\ UNCHANGED <<graph, exception, extrinsic_part_hash,
                               kd_reagent_conc_hash, kd_reagent_conc_label_hash>>
           ELSE /\ graph' = graph
                     \o <<AddDescribedIndividualToGraph(environment_id, condition,
                                                        environment, r.condition_group),
                          AddGenotype(extrinsic_geno_id, None, extrinsic_genotype,
                                      None)>>
                /\ extrinsic_part_hash' =
                     AddCondition(extrinsic_part_hash, extrinsic_geno_id, condition)
                /\ kd_reagent_conc_hash' =
                     PutInnerIfAbsent(kd_reagent_conc_hash, extrinsic_geno_id,
                                      condition, conc.id)
                \* line 1500: a condition the morpholino file did not name
                /\ IF known
                   THEN /\ kd_reagent_conc_label_hash' =
                             PutInnerIfAbsent(kd_reagent_conc_label_hash,
                                              extrinsic_geno_id, condition,
                                              targeted_gene_subregion_label)
                        /\ pc' = IF LimitReached(lc) THEN "pheno_enviro_break"
                                 ELSE "pheno_enviro"
                        /\ UNCHANGED exception
                   ELSE /\ pc' = "crashed"
                        /\ exception' = <<"KeyError">>
                        /\ UNCHANGED kd_reagent_conc_label_hash
        /\ UNCHANGED <<limit, label_hash, wildtype_hash,
                       genotype_id_to_background_id_hash, geno_hash, genoparts,
                       genotype_id, gvc_hash, vslc_label_hash, gt_idx, log>>
        /\ UNCHANGED kd_reagent_hash
        /\ UNCHANGED <<label_vars, mgi_vars, gu_vars, src_vars>>
----------------------------------------------------------------------------
(* ZFIN._process_pheno_enviro: the loops that follow the rows (1557-1627) *)

RECURSIVE GeneLoop(_, _, _, _, _, _, _, _)
\* lines 1582-1597: the targeted gene variants of one condition
GeneLoop(extrinsic_geno_id, condition, conc_id, tgs_id, tgs_label, gene_ids, n, acc) ==
    IF n > Len(gene_ids) THEN acc
    ELSE LET i == gene_ids[n]
             targeted_gene_variant_id ==
                 make_id(i \o <<"_">> \o conc_id)
             targeted_gene_variant_label ==
                 At(kd_reagent_hash.gene_label, i) \o tgs_label
         IN  GeneLoop(extrinsic_geno_id, condition, conc_id, tgs_id,
                      tgs_label, gene_ids, n + 1,
                      [graph |-> acc.graph
                           \o <<AddReagentTargetedGene(condition, i,
                                    targeted_gene_variant_id,
                                    targeted_gene_variant_label),
                                AddParts(tgs_id, targeted_gene_variant_id)>>,
                       tgc_hash |-> PutInnerIfAbsent(acc.tgc_hash,
                                        extrinsic_geno_id,
                                        targeted_gene_variant_id,
                                        targeted_gene_variant_label)])

RECURSIVE ConditionLoop(_, _, _, _)
\* lines 1564-1581: the targeted gene subregion of each condition
ConditionLoop(extrinsic_geno_id, conditions, j, acc) ==
    IF j > Len(conditions) THEN acc
    ELSE LET condition == conditions[j]
             kd_reagent_conc_id ==
                 At(At(kd_reagent_conc_hash, extrinsic_geno_id), condition)
             kd_reagent_gene_ids == At(kd_reagent_hash.kd_reagent_id, condition)
             targeted_gene_subregion_label ==
                 At(At(kd_reagent_conc_label_hash, extrinsic_geno_id), condition)
             targeted_gene_subregion_id ==
                 make_id(kd_reagent_conc_id \o join(<<"_">>, kd_reagent_gene_ids))
         IN  ConditionLoop(extrinsic_geno_id, conditions, j + 1,
                 GeneLoop(extrinsic_geno_id, condition, kd_reagent_conc_id,
                          targeted_gene_subregion_id,
                          targeted_gene_subregion_label, kd_reagent_gene_ids, 1,
                          [acc EXCEPT !.graph = @
                               \o <<AddTargetedGeneSubregion(
                                        targeted_gene_subregion_id,
                                        targeted_gene_subregion_label),
                                    AddParts(condition,
                                             targeted_gene_subregion_id)>>]))

RECURSIVE ExtrinsicLoop(_, _)
\* lines 1558-1563: every key of extrinsic_part_hash
ExtrinsicLoop(e, acc) ==
    IF e > Len(extrinsic_part_hash) THEN acc
    ELSE ExtrinsicLoop(e + 1,
             ConditionLoop(extrinsic_part_hash[e].k, extrinsic_part_hash[e].v, 1,
                 [acc EXCEPT !.graph =
                      Append(@, AddGenotype(extrinsic_part_hash[e].k, None,
                                            extrinsic_genotype, None))]))

RECURSIVE Distinct(_)
\* a list with every later repetition of an element left out
Distinct(s) ==
    IF s = << >> THEN << >>
    ELSE LET d == Distinct(SubSeq(s, 1, Len(s) - 1))
         IN  IF s[Len(s)] \in Elems(d) THEN d ELSE Append(d, s[Len(s)])

\* the label with every repetition kept
TargetedGeneComplementLabel_repeated(variants) ==
    join(<<";", " ">>, [i \in 1..Len(variants) |-> variants[i].v])

\* lines 1604-1613: the label of the targeted gene complement of an
\* extrinsic genotype, from tgc_hash[extrinsic_geno_id]
TargetedGeneComplementLabel(variants) ==
    join(<<";", " ">>, Distinct([i \in 1..Len(variants) |-> variants[i].v]))

RECURSIVE AddVariantsToComplement(_, _, _)
\* lines 1626-1627
AddVariantsToComplement(tgc_id, variants, i) ==
    IF i > Len(variants) THEN << >>
    ELSE <<AddParts(variants[i].k, tgc_id)>>
         \o AddVariantsToComplement(tgc_id, variants, i + 1)

RECURSIVE ComplementLoop(_, _, _)
\* lines 1603-1627: every key of tgc_hash
ComplementLoop(tgc_hash, e, acc) ==
    IF e > Len(tgc_hash) THEN acc
    ELSE LET extrinsic_geno_id == tgc_hash[e].k
             variants == tgc_hash[e].v
             targeted_gene_complement_id ==
                 make_id(join(<<"_">>, Distinct(Keys(variants))))
             targeted_gene_complement_label ==
                 TargetedGeneComplementLabel(variants)
         IN  ComplementLoop(tgc_hash, e + 1,
                 [graph |-> acc.graph
                      \o <<AddGenotype(extrinsic_geno_id,
                                       targeted_gene_complement_label,
                                       extrinsic_genotype, None),
                           AddTargetedGeneComplement(targeted_gene_complement_id,
                               targeted_gene_complement_label),
                           AddParts(targeted_gene_complement_id, extrinsic_geno_id)>>
                      \o AddVariantsToComplement(targeted_gene_complement_id,
                                                 variants, 1),
                  genotype_label |->
                      PutIfAbsent(acc.genotype_label, extrinsic_geno_id,
                                  targeted_gene_complement_label)])

\* the end of pheno_environment.txt (or the break), the two loops, and the
\* start of _process_feature_affected_genes
BuildExtrinsicGenotypes ==
    LET first == ExtrinsicLoop(1, [graph |-> graph, tgc_hash |-> << >>])
        second == ComplementLoop(first.tgc_hash, 1,
                      [graph |-> first.graph,
                       genotype_label |-> label_hash.genotype_label])
    IN  /\ pc \in {"pheno_enviro", "pheno_enviro_break"}
        /\ pc' = "feature_affected_genes"
        /\ graph' = second.graph
        /\ label_hash' = [label_hash EXCEPT !.genotype_label = second.genotype_label]
        /\ log' = log \cup {Info("Done with phenotype environments"),
                            Info("Processing feature affected genes")}
        /\ UNCHANGED <<limit, line_counter, exception, wildtype_hash,
                       genotype_id_to_background_id_hash, geno_hash, genoparts,
                       row, genotype_id, gvc_hash, vslc_label_hash, gt_idx>>
        /\ UNCHANGED env_vars
        /\ UNCHANGED <<label_vars, mgi_vars, gu_vars, src_vars>>

\* _process_feature_affected_genes on an empty file, and the start of
\* _process_g2p
ProcessFeatureAffectedGenes ==
    /\ pc = "feature_affected_genes"
    /\ pc' = "g2p"
    /\ line_counter' = 0
    /\ log' = log \cup {Info("Done with feature affected genes"),
                        Info("Processing G2P")}
    /\ UNCHANGED <<limit, exception, label_hash, wildtype_hash,
                   genotype_id_to_background_id_hash, geno_hash, genoparts,
                   row, genotype_id, gvc_hash, vslc_label_hash, gt_idx, graph>>
    /\ UNCHANGED <<label_vars, mgi_vars, gu_vars, rest_vars>>
----------------------------------------------------------------------------
(* The runs of the steps that follow _process_genotype_features *)

\* the rows of the phenotype file read after the environments
EnvG2PRows ==
    {r \in G2PRows : /\ r.genotype_id = <<"G1">>
                     /\ r.phenotype_id # None
                     /\ r.modifier = <<"abnormal">>}

\* parse() at the call of _process_morpholinos, the files of the earlier
\* steps having been empty
InitEnv ==
    /\ pc = "morpholinos"
    /\ limit = NoLimit
    /\ line_counter = 0
    /\ exception = None
    /\ label_hash = EmptyLabelHash
    /\ wildtype_hash = [id |-> << >>, symbol |-> << >>]
    /\ genotype_id_to_background_id_hash = << >>
    /\ geno_hash = << >>
    /\ genoparts = << >>
    /\ row = None
    /\ genotype_id = None
    /\ gvc_hash = << >>
    /\ vslc_label_hash = << >>
    /\ gt_idx = 1
    /\ graph = << >>
    /\ log = {Info("Processing wildtype genotypes"),
              Info("Done with wildtype genotypes"),
              Info("Processing genotype backgrounds"),
              Info("Done with genotype backgrounds"),
              Info("Processing Genotypes"), Info("Done with genotypes"),
              Info("Processing Morpholinos")}
    /\ LabelIdle
    /\ MgiStart
    /\ GuStart
    /\ RestStart

NextEnv ==
    \/ (line_counter < MaxMorph /\ \E r \in MorphRows : ProcessMorpholinoRow(r))
    \/ EndMorpholinos
    \/ (line_counter < MaxEnv /\ \E r \in EnvRows : ProcessEnviroRow(r))
    \/ BuildExtrinsicGenotypes
    \/ ProcessFeatureAffectedGenes
    \/ (line_counter < MaxEnvG2P /\ \E r \in EnvG2PRows : ProcessG2PRow(r))
    \/ EndG2P

SpecEnv == InitEnv /\ [][NextEnv]_vars

MaxFull == 1        \* rows of each file read in SpecFull

\* the whole of parse(), on files of at most MaxFull rows
NextFull ==
    \/ (line_counter < MaxFull /\ \E r \in WildRows : ProcessWildtypeRow(r))
    \/ EndWildtypes
    \/ (line_counter < MaxFull /\ \E r \in BackRows : ProcessBackgroundRow(r))
    \/ EndBackgrounds
    \/ (line_counter < MaxFull /\ \E r \in OrderRows : ProcessFeatureRow(r))
    \/ EndFeatures
    \/ BuildVSLCs
    \/ BuildGVCs
    \/ StartMorpholinos
    \/ (line_counter < MaxFull /\ \E r \in MorphRows : ProcessMorpholinoRow(r))
    \/ EndMorpholinos
    \/ (line_counter < MaxFull /\ \E r \in EnvRows : ProcessEnviroRow(r))
    \/ BuildExtrinsicGenotypes
    \/ ProcessFeatureAffectedGenes
    \/ (line_counter < MaxFull /\ \E r \in EnvG2PRows : ProcessG2PRow(r))
    \/ EndG2P

SpecFull == Init /\ [][NextFull]_vars
----------------------------------------------------------------------------
(* Properties of the order of the steps of parse() *)

\* a step reads one more row of the file that pc names
RowRead(step) == pc = step /\ line_counter' = line_counter + 1

Logged(msg) == Info(msg) \in log

\* C24: a step of parse() reads rows only after the steps that fill the
\* tables it looks up have ended, and from the start of the reading step on
\* the tables no longer change: the background labels and the
\* genotype-to-background map for the genotype features, the morpholino
\* tables for the phenotype environments, the genotype labels for the
\* genotype-phenotype rows.
C24_TablesFilledBeforeRead ==
    [][/\ RowRead("features") =>
            /\ Logged("Done with wildtype genotypes")
            /\ Logged("Done with genotype backgrounds")
       /\ RowRead("pheno_enviro") => Logged("Done with Morpholinos")
       /\ RowRead("g2p") =>
            /\ Logged("Done with genotypes")
            /\ Logged("Done with phenotype environments")
       /\ Logged("Processing Genotypes") =>
            /\ label_hash'.background_label = label_hash.background_label
            /\ genotype_id_to_background_id_hash' = genotype_id_to_background_id_hash
       /\ Logged("Processing phenotype environments") =>
            kd_reagent_hash' = kd_reagent_hash
       /\ Logged("Processing G2P") =>
            label_hash'.genotype_label = label_hash.genotype_label]_vars

\* a run that read a row of every file and filled every table
C24_Witness ==
    /\ pc = "parsed"
    /\ line_counter = 1
    /\ label_hash.background_label # << >>
    /\ genotype_id_to_background_id_hash # << >>
    /\ geno_hash # << >>
    /\ kd_reagent_hash.kd_reagent_id # << >>
    /\ extrinsic_part_hash # << >>
    /\ Len(label_hash.genotype_label) > 2
----------------------------------------------------------------------------
(* Properties of ZFIN._process_pheno_enviro and of what _process_g2p makes *)
(* of it                                                                    *)

ExtrinsicIds == {make_id(Zfin(r.environment_id)) : r \in EnvRows}

\* the extrinsic genotypes declared in the graph
ExtrinsicDecls ==
    {c \in Calls("addGenotype") : c.c = extrinsic_genotype}

\* C25: every extrinsic genotype id that _process_g2p attaches as a part of
\* an effective genotype has been declared as an extrinsic genotype by
\* _process_pheno_enviro.
C25_AttachedExtrinsicDeclared ==
    \A c \in Calls("addParts") :
        c.a \in ExtrinsicIds => \E x \in ExtrinsicDecls : x.a = c.a
RECURSIVE Flatten(_)
\* the lists of a list, one behind the other
Flatten(ss) == IF ss = << >> THEN << >> ELSE ss[1] \o Flatten(Tail(ss))

\* the labels of the targeted gene variants of an environment as the rows
\* and the morpholino tables give them: for every condition in the order of
\* first encounter, one label per target gene of the condition
VariantLabels(extrinsic_geno_id) ==
    LET conditions == At(extrinsic_part_hash, extrinsic_geno_id)
        OfCondition(condition) ==
            LET genes == At(kd_reagent_hash.kd_reagent_id, condition)
            IN  [n \in 1..Len(genes) |->
                    At(kd_reagent_hash.gene_label, genes[n])
                    \o At(At(kd_reagent_conc_label_hash, extrinsic_geno_id),
                          condition)]
    IN  Flatten([j \in 1..Len(conditions) |-> OfCondition(conditions[j])])

\* C26: once _process_pheno_enviro has ended, for every environment with a
\* morpholino condition the label of the extrinsic genotype, in the graph
\* and in label_hash, is the label of its targeted gene complement, and
\* that is the distinct labels of the targeted gene variants of the
\* environment joined by '; ' in the order of first encounter.
C26_ExtrinsicLabelIsComplementLabel ==
    Logged("Done with phenotype environments") =>
        \A e \in 1..Len(extrinsic_part_hash) :
            LET ext == extrinsic_part_hash[e].k
                expected == join(<<";", " ">>, Distinct(VariantLabels(ext)))
            IN  /\ Get(label_hash.genotype_label, ext) = expected
                /\ \E x \in ExtrinsicDecls : x.a = ext /\ x.b = expected
                /\ \A x \in ExtrinsicDecls :
                       (x.a = ext /\ x.b # None) => x.b = expected
                /\ \E p \in Calls("addParts") :
                       /\ p.b = ext
                       /\ \E t \in Calls("addTargetedGeneComplement") : t.a = p.a
                /\ \A p \in Calls("addParts"), t \in Calls("addTargetedGeneComplement") :
                       (p.b = ext /\ t.a = p.a) => t.b = expected

\* an environment with two conditions and three targeted gene variants, two
\* of them of one label
C26_Witness ==
    /\ Logged("Done with phenotype environments")
    /\ \E e \in 1..Len(extrinsic_part_hash) :
           LET labels == VariantLabels(extrinsic_part_hash[e].k)
           IN  /\ Len(extrinsic_part_hash[e].v) = 2
               /\ Len(labels) = 3
               /\ Len(Distinct(labels)) = 2
----------------------------------------------------------------------------
(* MGI._process_gxd_genotype_view, followed by the allele pair view *)

MaxGenotypeRows == 2    \* rows of gxd_genotype_view

owl_sameAs == <<"owl:sameAs">>
intrinsic_genotype == <<"GENO", ":", "0000000">>
genomic_background == <<"GENO", ":", "0000010">>
has_reference_part == <<"GENO", ":", "0000385">>

\* MGI._makeInternalIdentifier: '_' + prefix + 'key' + key, the prefix and
\* 'key' being one word
_makeInternalIdentifier(prefix, key) ==
    <<"_", CASE prefix = "genotype" -> "genotypekey"
             [] prefix = "strain" -> "strainkey">> \o key

\* the rows: the MGI id of a genotype is that of its key
GenotypeViewRows ==
    {[genotype_key |-> k, strain_key |-> <<"3">>, mgiid |-> <<"MGI", ":">> \o k] :
        k \in {<<"7">>, <<"8">>}}

ProcessGenotypeViewRow(r) ==
    LET lc == mgi_line_counter + 1
        gt == r.mgiid
        igt == _makeInternalIdentifier("genotype", r.genotype_key)
        istrain == _makeInternalIdentifier("strain", r.strain_key)
    IN  /\ mgi_pc = "genotype_view"
        /\ mgi_line' = r
        /\ mgi_line_counter' = lc
        /\ mgi_graph' = mgi_graph
              \cup IndividualTriples(AddIndividualToGraph(gt, None, intrinsic_genotype))
              \cup {<<gt, owl_sameAs, igt>>}
              \cup IndividualTriples(AddIndividualToGraph(istrain, None,
                                                          genomic_background))
              \cup {<<gt, has_reference_part, istrain>>}
        /\ mgi_pc' = IF mgi_limit # NoLimit /\ lc > mgi_limit[1]
                     THEN "genotype_view_break" ELSE "genotype_view"
        /\ UNCHANGED <<mgi_limit, mgi_out>>
        /\ UNCHANGED <<zfin_vars, label_vars, gu_vars, rest_vars>>

\* the end of gxd_genotype_view (or the break); parse() goes on to the
\* allele pair view
EndGenotypeView ==
    /\ mgi_pc \in {"genotype_view", "genotype_view_break"}
    /\ mgi_pc' = "rows"
    /\ mgi_line_counter' = 0
    /\ UNCHANGED <<mgi_limit, mgi_line, mgi_graph, mgi_out>>
    /\ UNCHANGED <<zfin_vars, label_vars, gu_vars, rest_vars>>

InitMGIViews ==
    /\ ParseStart(NoLimit) /\ LabelIdle /\ GuStart /\ RestStart
    /\ mgi_pc = "genotype_view"
    /\ mgi_limit = NoLimit
    /\ mgi_line = None
    /\ mgi_line_counter = 0
    /\ mgi_graph = {}
    /\ mgi_out = {}

NextMGIViews ==
    \/ (mgi_line_counter < MaxGenotypeRows
        /\ \E r \in GenotypeViewRows : ProcessGenotypeViewRow(r))
    \/ EndGenotypeView
    \/ (mgi_line_counter < MaxPairs
        /\ \E r \in AllelePairRows : ProcessAllelePairRow(r))
    \/ EndAllelePairs

SpecMGIViews == InitMGIViews /\ [][NextMGIViews]_vars

\* C27: the genotype node that the genotype view declared for a genotype key
\* (and equated to the MGI genotype id) is the node that gets the VSLC of an
\* allele pair row of that key.
C27_PairsAttachedToDeclaredGenotype ==
    [][(mgi_pc = "rows" /\ mgi_line_counter' = mgi_line_counter + 1) =>
        \A t \in mgi_graph' :
            (t[2] = owl_sameAs /\ t[1] = <<"MGI", ":">> \o mgi_line'.genotype_key)
            => \E v \in mgi_graph' :
                   /\ v[2] = rdf_type
                   /\ v[3] = variant_single_locus_complement
                   /\ <<t[3], owl_hasPart, v[1]>> \in mgi_graph']_vars
----------------------------------------------------------------------------
(* OMIM.process_entries: the requests to the OMIM API.  An id is a number, *)
(* omimids is the list of line 219, whose order the set decides.            *)

MaxOmimIds == 42    \* ids in omimids

groupsize == 20

Min(a, b) == IF a < b THEN a ELSE b

\* omimids[a:b] for 0 <= a
Slice(s, a, b) == SubSeq(s, a + 1, Min(b, Len(s)))

\* self.test_ids as far as they can be among the ids
test_ids == {3, 25}

\* the end of the batch without the cap at maxit
BatchEnd_uncapped(it, maxit) == it + groupsize

\* line 234: end
BatchEnd(it, maxit) == Min(maxit, it + groupsize)

\* lines 225-231: maxit
Maxit(testMode, lim, n) ==
    IF ~testMode /\ lim # NoLimit THEN Min(lim[1], n) ELSE n

OmimLimits == {NoLimit} \cup {<<l>> : l \in -1..(MaxOmimIds + 1)}

OmimIdLists ==
    UNION {{[k \in 1..n |-> k], [k \in 1..n |-> n + 1 - k]} : n \in 0..MaxOmimIds}

InitOMIM ==
    /\ ParseStart(NoLimit) /\ LabelIdle /\ MgiStart /\ GuStart
    /\ EnvStart /\ MorbidStart /\ FlyStart
    /\ omim_pc = "called"
    /\ omim_testMode \in BOOLEAN
    /\ omim_limit \in OmimLimits
    /\ omimids \in OmimIdLists
    /\ omim_it = 0
    /\ omim_maxit = 0
    /\ omim_requests = << >>

\* lines 221-231
StartEntries ==
    /\ omim_pc = "called"
    /\ omim_pc' = "loop"
    /\ omim_it' = 0
    /\ omim_maxit' = Maxit(omim_testMode, omim_limit, Len(omimids))
    /\ UNCHANGED <<omim_testMode, omim_limit, omimids, omim_requests>>
    /\ UNCHANGED <<zfin_vars, label_vars, mgi_vars, gu_vars, env_vars, mm_vars,
                   fly_vars>>

\* lines 233-261: one turn of the while loop
RequestBatch ==
    LET end == BatchEnd(omim_it, omim_maxit)
        batch == Slice(omimids, omim_it, end)
        intersect == SelectSeq(batch, LAMBDA i : i \in test_ids)
    IN  /\ omim_pc = "loop"
        /\ omim_it < omim_maxit
        /\ omim_requests' =
             IF omim_testMode
             THEN (IF Len(intersect) > 0 THEN Append(omim_requests, intersect)
                   ELSE omim_requests)
             ELSE Append(omim_requests, batch)
        /\ omim_it' = omim_it + groupsize
        /\ UNCHANGED <<omim_pc, omim_testMode, omim_limit, omimids, omim_maxit>>
        /\ UNCHANGED <<zfin_vars, label_vars, mgi_vars, gu_vars, env_vars,
                       mm_vars, fly_vars>>

\* line 233 with it >= maxit: the loop is left
EndEntries ==
    /\ omim_pc = "loop"
    /\ omim_it >= omim_maxit
    /\ omim_pc' = "done"
    /\ UNCHANGED <<omim_testMode, omim_limit, omimids, omim_it, omim_maxit,
                   omim_requests>>
    /\ UNCHANGED <<zfin_vars, label_vars, mgi_vars, gu_vars, env_vars, mm_vars,
                   fly_vars>>

NextOMIM ==
    \/ StartEntries
    \/ RequestBatch
    \/ EndEntries

SpecOMIM == InitOMIM /\ [][NextOMIM]_vars

\* the call runs on: no step of it waits for anything but the API's answer
SpecOMIMFair == SpecOMIM /\ WF_vars(NextOMIM)

\* the ids that the claim wants requested
FirstIds ==
    SubSeq(omimids, 1,
           IF omim_limit = NoLimit THEN Len(omimids)
           ELSE Min(omim_limit[1], Len(omimids)))

RequestsPartitionFirstIds ==
    (~omim_testMode /\ omim_pc = "done") =>
        /\ Flatten(omim_requests) = FirstIds
        /\ \A i \in 1..Len(omim_requests) :
               Len(omim_requests[i]) \in 1..groupsize

\* C28: outside test mode the requests name the first min(limit, n) ids in
\* consecutive groups of at most 20, every id once, and the loop ends.
C28_BatchesPartitionFirstIds ==
    /\ []RequestsPartitionFirstIds
    /\ <>(omim_pc = "done")

\* three requests, the last one short, under a limit below the number of ids
C28_Witness ==
    /\ ~omim_testMode
    /\ omim_pc = "done"
    /\ omim_limit # NoLimit
    /\ omim_limit[1] < Len(omimids)
    /\ Len(omim_requests) = 3
    /\ Len(omim_requests[3]) < groupsize
----------------------------------------------------------------------------
(* OMIM._process_morbidmap (src/sources/OMIM.py): one line of morbidmap *)

MaxMorbidLines == 3     \* lines of morbidmap

\* the tokens that are runs of digits
NumberTokens == {"273750", "100100", "100200", "1", "2", "3", "9"}

\* re.search('(.*), (\d+) \((\d+)\)', disorder): << >> for None, else the
\* three groups; the first group is greedy, so the last match counts
DisorderSearch(disorder) ==
    LET At7(i) == /\ disorder[i] = ","
                  /\ disorder[i + 1] = " "
                  /\ disorder[i + 2] \in NumberTokens
                  /\ disorder[i + 3] = " "
                  /\ disorder[i + 4] = "("
                  /\ disorder[i + 5] \in NumberTokens
                  /\ disorder[i + 6] = ")"
        found == {i \in 1..(Len(disorder) - 6) : At7(i)}
    IN  IF found = {} THEN << >>
        ELSE LET i == CHOOSE j \in found : \A k \in found : k <= j
             IN  <<[disorder_label |-> SubSeq(disorder, 1, i - 1),
                    disorder_num |-> <<disorder[i + 2]>>,
                    phene_key |-> <<disorder[i + 5]>>]>>

phene_code_to_eco ==
    << [k |-> <<"1">>, v |-> <<"ECO", ":", "0000306">>],
       [k |-> <<"2">>, v |-> <<"ECO", ":", "0000177">>],
       [k |-> <<"3">>, v |-> <<"ECO", ":", "0000220">>],
       [k |-> <<"4">>, v |-> <<"ECO", ":", "0000220">>] >>

\* OMIM._map_phene_mapping_code_to_eco: the code and whether the error was
\* printed
_map_phene_mapping_code_to_eco(code) ==
    IF Has(phene_code_to_eco, code)
    THEN [eco_code |-> Get(phene_code_to_eco, code), printed |-> FALSE]
    ELSE [eco_code |-> <<"ECO", ":", "0000000">>, printed |-> TRUE]

Omim(x) == <<"OMIM", ":">> \o x

MorbidLines ==
    {[disorder |-> <<"3", "-", "M", " ", "syndrome", " ", "1", ",", " ",
                     "273750", " ", "(", "3", ")">>,
      gene_num |-> <<"609577">>],
     [disorder |-> <<"Foo", ",", " ", "100100", " ", "(", "2", ")">>,
      gene_num |-> <<"600000">>],
     [disorder |-> <<"Baz", ",", " ", "100200", " ", "(", "9", ")">>,
      gene_num |-> <<"600001">>],
     [disorder |-> <<"Bar", " ", "susceptibility">>,
      gene_num |-> <<"601000">>]}

\* the texts of line 303 are joined without a separator
ProcessMorbidLine(r) ==
    LET lc == mm_line_counter + 1
        disorder_search == DisorderSearch(r.disorder)
        \* lines 290-296: the names are bound anew only when the search matched
        parts == IF disorder_search # << >> THEN disorder_search ELSE mm_parts
        gene_id == Omim(r.gene_num)
        disorder_id == Omim(parts[1].disorder_num)
        evidence == _map_phene_mapping_code_to_eco(parts[1].phene_key)
        assoc_id == make_id(disorder_id \o gene_id \o parts[1].phene_key)
    IN  /\ mm_pc = "lines"
        /\ mm_line' = r
        /\ mm_line_counter' = lc
        /\ mm_parts' = parts
        /\ IF parts = << >>
           \* line 298: disorder_num was never bound
           THEN /\ mm_pc' = "crashed"
                /\ UNCHANGED <<mm_graph, mm_out>>
           ELSE /\ mm_graph' = Append(mm_graph,
                                 [assoc_id |-> assoc_id, gene_id |-> gene_id,
                                  disorder_id |-> disorder_id,
                                  evidence |-> evidence.eco_code])
                /\ mm_out' = IF evidence.printed
                             THEN mm_out \cup {<<"ERROR: unmapped phene code">>
                                               \o parts[1].phene_key}
                             ELSE mm_out
                /\ mm_pc' = IF mm_limit # NoLimit /\ lc > mm_limit[1]
                            THEN "break" ELSE "lines"
        /\ UNCHANGED mm_limit
        /\ UNCHANGED <<zfin_vars, label_vars, mgi_vars, gu_vars, env_vars,
                       omim_vars, fly_vars>>

\* the end of the file (or the break)
EndMorbidmap ==
    /\ mm_pc \in {"lines", "break"}
    /\ mm_pc' = "done"
    /\ UNCHANGED <<mm_limit, mm_line_counter, mm_line, mm_parts, mm_graph, mm_out>>
    /\ UNCHANGED <<zfin_vars, label_vars, mgi_vars, gu_vars, env_vars, omim_vars,
                   fly_vars>>

InitMorbid ==
    /\ ParseStart(NoLimit) /\ LabelIdle /\ MgiStart /\ GuStart
    /\ EnvStart /\ OmimStart /\ FlyStart
    /\ mm_pc = "lines"
    /\ mm_limit \in {NoLimit, <<1>>}
    /\ mm_line_counter = 0
    /\ mm_line = None
    /\ mm_parts = << >>
    /\ mm_graph = << >>
    /\ mm_out = {}

NextMorbid ==
    \/ (mm_line_counter < MaxMorbidLines
        /\ \E r \in MorbidLines : ProcessMorbidLine(r))
    \/ EndMorbidmap

SpecMorbid == InitMorbid /\ [][NextMorbid]_vars

\* C29: the association that a line adds carries the disorder number and
\* the phene mapping key that stand in the disorder field of that line, and
\* a line whose disorder field has no '<number> (<key>)' adds none.
C29_AssociationFromOwnLine ==
    [][mm_line_counter' = mm_line_counter + 1 =>
        LET disorder == mm_line'.disorder
            added == SubSeq(mm_graph', Len(mm_graph) + 1, Len(mm_graph'))
        IN  /\ "(" \notin Elems(disorder) => added = << >>
            /\ \A i \in 1..Len(added) :
                   \E j \in 1..(Len(disorder) - 3) :
                       /\ added[i].disorder_id = Omim(<<disorder[j]>>)
                       /\ disorder[j + 1] = " "
                       /\ disorder[j + 2] = "("
                       /\ added[i].assoc_id =
                            make_id(added[i].disorder_id \o added[i].gene_id
                                    \o <<disorder[j + 3]>>)]_vars
----------------------------------------------------------------------------
(* FlyBase._process_phenotype_cvterm: one row of phenotype_cvterm *)

MaxFlyRows == 3     \* rows of phenotype_cvterm

\* self.idhash['phenotype'] as _process_phenotype leaves it (line 807) and
\* self.idhash['cvterm'] as _process_cvterm leaves it (line 963)
PhenotypeIds ==
    << [k |-> <<"8507">>, v |-> <<"FBbt", ":", "1", "PHENOTYPE">>],
       [k |-> <<"8513">>, v |-> <<"FBbt", ":", "2", "PHENOTYPE">>] >>
CvtermIds ==
    << [k |-> <<"60793">>, v |-> <<"FBcv", ":", "1">>],
       [k |-> <<"60830">>, v |-> <<"FBcv", ":", "2">>] >>

PhenotypeCvtermRows ==
    [phenotype_id : {<<"8507">>, <<"8513">>},
     cvterm_id : {<<"60793">>, <<"60830">>, <<"60999">>}]

ProcessPhenotypeCvtermRow(line) ==
    LET phenotype_key == line.phenotype_id
        cvterm_key == line.cvterm_id
        phenotype_id == At(fly_idhash.phenotype, phenotype_key)
        cvterm_id == At(fly_idhash.cvterm, cvterm_key)
    IN  /\ fly_pc = "rows"
        /\ fly_lines' = Append(fly_lines, line)
        /\ IF Has(fly_idhash.cvterm, cvterm_key)
           THEN /\ fly_idhash' = [fly_idhash EXCEPT
                                     !.phenotype = Put(@, phenotype_key, cvterm_id)]
                \* line 910 looks the key up, lines 911 and 913 write the id
                /\ phenocv' =
                     IF ~Has(phenocv, phenotype_key)
                     THEN Put(phenocv, phenotype_id, <<cvterm_id>>)
                     ELSE Put(phenocv, phenotype_id,
                              Append(At(phenocv, phenotype_id), cvterm_id))
                /\ UNCHANGED fly_log
           ELSE /\ fly_log' = fly_log
                     \cup {<<"Not storing the cvterm info for ">> \o cvterm_key}
                /\ UNCHANGED <<fly_idhash, phenocv>>
        /\ UNCHANGED fly_pc
        /\ UNCHANGED <<zfin_vars, label_vars, mgi_vars, gu_vars, env_vars,
                       omim_vars, mm_vars>>

\* the end of the file
EndPhenotypeCvterm ==
    /\ fly_pc = "rows"
    /\ fly_pc' = "done"
    /\ UNCHANGED <<fly_lines, fly_idhash, phenocv, fly_log>>
    /\ UNCHANGED <<zfin_vars, label_vars, mgi_vars, gu_vars, env_vars, omim_vars,
                   mm_vars>>

InitFly ==
    /\ ParseStart(NoLimit) /\ LabelIdle /\ MgiStart /\ GuStart
    /\ EnvStart /\ OmimStart /\ MorbidStart
    /\ fly_pc = "rows"
    /\ fly_lines = << >>
    /\ fly_idhash = [phenotype |-> PhenotypeIds, cvterm |-> CvtermIds]
    /\ phenocv = << >>
    /\ fly_log = {}

NextFly ==
    \/ (Len(fly_lines) < MaxFlyRows
        /\ \E line \in PhenotypeCvtermRows : ProcessPhenotypeCvtermRow(line))
    \/ EndPhenotypeCvterm

SpecFly == InitFly /\ [][NextFly]_vars

\* the mapped cvterms of the rows of a phenotype, in row order
MappedCvterms(phenotype_key) ==
    LET rows == SelectSeq(fly_lines,
                    LAMBDA l : /\ l.phenotype_id = phenotype_key
                               /\ Has(CvtermIds, l.cvterm_id))
    IN  [i \in 1..Len(rows) |-> At(CvtermIds, rows[i].cvterm_id)]

\* C30: after all rows, the phenocv entry of every phenotype (under its
\* database key or under the id that _process_phenotype gave it) lists the
\* mapped cvterms of all rows of the phenotype in row order.
C30_PhenocvListsAllCvterms ==
    fly_pc = "done" =>
        \A p \in 1..Len(PhenotypeIds) :
            LET expected == MappedCvterms(PhenotypeIds[p].k)
            IN  expected # << >> =>
                    \/ /\ Has(phenocv, PhenotypeIds[p].k)
                       /\ At(phenocv, PhenotypeIds[p].k) = expected
                    \/ /\ Has(phenocv, PhenotypeIds[p].v)
                       /\ At(phenocv, PhenotypeIds[p].v) = expected
====
